---- MODULE Spec2Model ----
(***************************************************************************)
(* A model of the line editor of readline.hh: Buffer, History,             *)
(* HistoryView, CommandSequences (the prefix trie), CommandReader (the     *)
(* dispatcher) and Readline (the read loop).                               *)
(*                                                                         *)
(* A std::string is a sequence of char values; a char is the integer it    *)
(* converts to.  Eleven specifications share the variables:                *)
(*   SpecBuffer   calls of the Buffer methods on one Buffer                *)
(*   SpecHistory  calls of the HistoryView methods on one HistoryView      *)
(*   SpecCR       a CommandReader configured with add_command/set_default, *)
(*                then read_and_execute over an input stream               *)
(*   Spec         a default-constructed Readline and its read() calls      *)
(*   SpecTerm     a Readline from set_terminal_settings to its destructor, *)
(*                with the terminal attributes of standard input           *)
(*   SpecDisplay  a Readline with a prompt, with or without a completion   *)
(*                function, and what its commands send to the display      *)
(*   SpecOutput   the same on a display where one write fails              *)
(*   SpecLines    a Readline fed lines, with the bytes it reads logged     *)
(*   SpecSettings calls of the flag setters of one TerminalSettings        *)
(*   SpecInput    a Readline whose input stream is set by the caller       *)
(*   SpecRoot     SpecCR where a command may also be put on the root       *)
(***************************************************************************)
EXTENDS Integers, Sequences, FiniteSets, TLC

VARIABLES
    buffer_,          \* Buffer: [data_, cursor_pos_]
    history_,         \* HistoryView: [entries_, current_line_]
    command_reader_,  \* CommandReader: [commands_, default_, should_stop_, curchar_, input_]
    sequence,         \* read_and_execute's local `sequence`: the path of the trie node
    input,            \* the std::istream behind CommandReader::input_
    plain_char_signed,\* whether the build's plain char is signed
    pc,               \* "idle", or "reading" inside read_and_execute
    status,           \* how the last read() / read_and_execute() ended
    call,             \* the last method called or command run: [op, arg, ret, at]
    added,            \* every line handed to History::add_line so far, in order
    nav,              \* previous()/next() calls since the last other HistoryView call
    fired,            \* what the commands of a CommandReader under test recorded
    consumed,         \* the bytes read so far, where a specification logs them
    terminal_,        \* Terminal: [settings_], a TerminalSettings
    stdin_attr,       \* the termios in force on STDIN_FILENO
    prompter_,        \* Prompt: [set, text, prompt_, calls]
    completion_,      \* Completion: the name of the function set, or NoCompletion
    display,          \* the terminal's screen line and the state of the output
    input_            \* Readline::input_: the name of the stream it refers to

vars == <<buffer_, history_, command_reader_, sequence, input, plain_char_signed,
          pc, status, call, added, nav, fired, consumed, terminal_, stdin_attr,
          prompter_, completion_, display, input_>>

----------------------------------------------------------------------------
(* Bounds of the model *)

\* longest Buffer content the Buffer specification builds
MaxBufLen == 5
\* History::max_entries_ is 1024 in the source; the model runs the same code
\* with a capacity small enough to fill and overflow
max_entries_ == 3
\* how many lines a HistoryView run adds
MaxAdded == 5
\* how many consecutive previous()/next() calls are counted
MaxNav == 4
\* how many times a CommandReader under test calls input_.get()
MaxFeed == 4
\* how many times a Readline calls input_.get(), over all its read() calls
MaxGets == 5
\* the write that fails is one of the first MaxFail writes to the display
MaxFail == 6

----------------------------------------------------------------------------
(* Character values *)

\* characters the Buffer specification inserts: 'a' 'b' 'c' 'd' 'x'
BufChars == {97, 98, 99, 100, 120}
\* lines the HistoryView specification adds: "", "a", "b"
HistLines == {<<>>, <<97>>, <<98>>}

\* call.at is the cursor (Buffer position or history line) before the call
NoCall == [op |-> "none", arg |-> <<>>, ret |-> <<>>, at |-> 0]
\* nav counts a run of np previous() calls followed by nn next() calls that
\* began with the view at line `start` of `size` entries; ok is FALSE once the
\* calls since then no longer have that shape
NavAt(h) ==
    [start |-> h.current_line_, size |-> Len(h.entries_), np |-> 0, nn |-> 0,
     ok |-> TRUE]

----------------------------------------------------------------------------
(* std::string primitives used by Buffer *)

\* s.substr(pos): the characters from index pos (0-based) to the end
substr(s, pos) == SubSeq(s, pos + 1, Len(s))
\* s.erase(pos): drop everything from index pos on
erase_from(s, pos) == SubSeq(s, 1, pos)
\* s.erase(pos, 1): drop the one character at index pos
erase_one(s, pos) == SubSeq(s, 1, pos) \o SubSeq(s, pos + 2, Len(s))
\* s.insert(pos, t): put t in front of index pos
str_insert(s, pos, t) == SubSeq(s, 1, pos) \o t \o SubSeq(s, pos + 1, Len(s))

----------------------------------------------------------------------------
(* class Buffer *)

Buffer_new == [data_ |-> <<>>, cursor_pos_ |-> 0]

\* a slip in the interior branch: the ending is put back at the old cursor,
\* in front of the new character
Buffer_insert_ending_first(b, c) ==
    IF b.cursor_pos_ = Len(b.data_)
    THEN [data_ |-> Append(b.data_, c), cursor_pos_ |-> b.cursor_pos_ + 1]
    ELSE LET ending == substr(b.data_, b.cursor_pos_)
             erased == erase_from(b.data_, b.cursor_pos_)
             withc  == str_insert(erased, b.cursor_pos_, <<c>>)
         IN  [data_ |-> str_insert(withc, b.cursor_pos_, ending),
              cursor_pos_ |-> b.cursor_pos_ + 1]

\* an insert whose interior branch leaves the cursor in front of the new
\* character
Buffer_insert_not_advancing(b, c) ==
    IF b.cursor_pos_ = Len(b.data_)
    THEN [data_ |-> Append(b.data_, c), cursor_pos_ |-> b.cursor_pos_ + 1]
    ELSE LET ending == substr(b.data_, b.cursor_pos_)
             erased == erase_from(b.data_, b.cursor_pos_)
             withc  == str_insert(erased, b.cursor_pos_, <<c>>)
         IN  [data_ |-> str_insert(withc, b.cursor_pos_ + 1, ending),
              cursor_pos_ |-> b.cursor_pos_]

Buffer_insert(b, c) ==
    IF b.cursor_pos_ = Len(b.data_)
    THEN [data_ |-> Append(b.data_, c), cursor_pos_ |-> b.cursor_pos_ + 1]
    ELSE LET ending == substr(b.data_, b.cursor_pos_)
             erased == erase_from(b.data_, b.cursor_pos_)
             withc  == str_insert(erased, b.cursor_pos_, <<c>>)
             pos    == b.cursor_pos_ + 1
         IN  [data_ |-> str_insert(withc, pos, ending), cursor_pos_ |-> pos]

\* move_left without its guard
Buffer_move_left_unguarded(b) ==
    [b EXCEPT !.cursor_pos_ = b.cursor_pos_ - 1]

Buffer_move_left(b) ==
    IF b.cursor_pos_ >= 1
    THEN [b EXCEPT !.cursor_pos_ = b.cursor_pos_ - 1]
    ELSE b

Buffer_move_right(b) ==
    IF b.cursor_pos_ < Len(b.data_)
    THEN [b EXCEPT !.cursor_pos_ = b.cursor_pos_ + 1]
    ELSE b

\* remove without its guard, erasing at the cursor instead of in front of it
Buffer_remove_at_cursor(b) ==
    [data_ |-> erase_one(b.data_, b.cursor_pos_),
     cursor_pos_ |-> b.cursor_pos_ - 1]

Buffer_remove(b) ==
    IF b.cursor_pos_ >= 1
    THEN [data_ |-> erase_one(b.data_, b.cursor_pos_ - 1),
          cursor_pos_ |-> b.cursor_pos_ - 1]
    ELSE b

Buffer_clear(b) == [data_ |-> <<>>, cursor_pos_ |-> 0]

Buffer_reset(b, s) == [data_ |-> s, cursor_pos_ |-> Len(s)]

Buffer_position(b) == b.cursor_pos_
Buffer_data(b) == b.data_
Buffer_empty(b) == b.data_ = <<>>
Buffer_size(b) == Len(b.data_)

----------------------------------------------------------------------------
(* class History, as the entries_ deque *)

History_get_line(entries, n) == entries[n + 1]

\* eviction at the wrong end: the newest line is dropped
History_add_line_drop_newest(entries, line) ==
    LET pushed == Append(entries, line)
    IN  IF Len(pushed) > max_entries_
        THEN SubSeq(pushed, 1, Len(pushed) - 1)
        ELSE pushed

History_add_line(entries, line) ==
    LET pushed == Append(entries, line)
    IN  IF Len(pushed) > max_entries_ THEN Tail(pushed) ELSE pushed

History_size(entries) == Len(entries)
History_empty(entries) == History_size(entries) = 0

----------------------------------------------------------------------------
(* class HistoryView: each method gives the view afterwards, previous() and *)
(* next() also the string returned                                         *)

HistoryView_new == [entries_ |-> <<>>, current_line_ |-> 0]

\* add_line that advances the cursor whether or not the history grew
HistoryView_add_line_always_advancing(h, line) ==
    [entries_ |-> History_add_line(h.entries_, line),
     current_line_ |-> h.current_line_ + 1]

HistoryView_add_line(h, line) ==
    LET current_size == History_size(h.entries_)
        entries == History_add_line(h.entries_, line)
    IN  [entries_ |-> entries,
         current_line_ |-> IF current_size < History_size(entries)
                           THEN h.current_line_ + 1
                           ELSE h.current_line_]

HistoryView_reset_position(h) ==
    [h EXCEPT !.current_line_ = History_size(h.entries_)]

HistoryView_size(h) == History_size(h.entries_)

\* previous() that wraps to the newest entry instead of saturating
HistoryView_previous_wrapping(h) ==
    IF History_empty(h.entries_)
    THEN [view |-> h, ret |-> <<>>]
    ELSE IF h.current_line_ # 0
         THEN [view |-> [h EXCEPT !.current_line_ = h.current_line_ - 1],
               ret |-> History_get_line(h.entries_, h.current_line_ - 1)]
         ELSE [view |-> [h EXCEPT !.current_line_ = History_size(h.entries_) - 1],
               ret |-> History_get_line(h.entries_, History_size(h.entries_) - 1)]

HistoryView_previous(h) ==
    IF History_empty(h.entries_)
    THEN [view |-> h, ret |-> <<>>]
    ELSE IF h.current_line_ # 0
         THEN [view |-> [h EXCEPT !.current_line_ = h.current_line_ - 1],
               ret |-> History_get_line(h.entries_, h.current_line_ - 1)]
         ELSE [view |-> h, ret |-> History_get_line(h.entries_, 0)]

\* next() that repeats the last entry at the end of the history
HistoryView_next_repeating(h) ==
    IF History_empty(h.entries_)
    THEN [view |-> h, ret |-> <<>>]
    ELSE IF h.current_line_ < History_size(h.entries_)
         THEN [view |-> [h EXCEPT !.current_line_ = h.current_line_ + 1],
               ret |-> History_get_line(h.entries_, h.current_line_)]
         ELSE [view |-> h,
               ret |-> History_get_line(h.entries_, History_size(h.entries_) - 1)]

HistoryView_next(h) ==
    IF History_empty(h.entries_)
    THEN [view |-> h, ret |-> <<>>]
    ELSE IF h.current_line_ < History_size(h.entries_)
         THEN [view |-> [h EXCEPT !.current_line_ = h.current_line_ + 1],
               ret |-> History_get_line(h.entries_, h.current_line_)]
         ELSE [view |-> h, ret |-> <<>>]

----------------------------------------------------------------------------
(* Key constants and the conversion of input_.get()'s int to char *)

CTRL_C == 3
CTRL_D == 4
CTRL_U == 21
ESC == 27
BACKSPACE == 127
NEWLINE == 10
TAB == 9
LBRACKET == 91
MOVE_LEFT == <<ESC, LBRACKET, 68>>
MOVE_RIGHT == <<ESC, LBRACKET, 67>>
MOVE_DOWN == <<ESC, LBRACKET, 65>>
MOVE_UP == <<ESC, LBRACKET, 66>>

\* <cstdio>'s EOF, the int input_.get() returns at the end of the stream
EOF == 0 - 1

\* curchar_ = input_.get(): the int (0..255 or EOF) narrowed to plain char
to_char(v) ==
    IF plain_char_signed
    THEN IF v > 127 THEN v - 256 ELSE v
    ELSE v % 256

----------------------------------------------------------------------------
(* std::istream: get() and unget().  `next` is what the source holds at the *)
(* read position when get() has to extract: a byte, or EOF at its end.     *)

Stream_new == [unget |-> FALSE, last |-> EOF, eof |-> FALSE, count |-> 0]

\* the value get() returns
Stream_peek(st, next) ==
    IF st.eof THEN EOF
    ELSE IF st.unget THEN st.last
    ELSE next

Stream_get(st, next) ==
    IF st.eof THEN [st EXCEPT !.count = st.count + 1]
    ELSE IF st.unget THEN [st EXCEPT !.unget = FALSE, !.count = st.count + 1]
    ELSE [unget |-> FALSE, last |-> next, eof |-> next = EOF,
          count |-> st.count + 1]

\* an unget() that gives nothing back
Stream_unget_dropping(st) == st

\* unget() fails once eofbit/failbit are set; otherwise the byte just
\* extracted is read again
Stream_unget(st) ==
    IF st.eof \/ st.last = EOF THEN st ELSE [st EXCEPT !.unget = TRUE]

----------------------------------------------------------------------------
(* class TerminalSettings and class Terminal.  A termios is the flag words *)
(* c_lflag and c_oflag, each the set of its flags that are on, and the     *)
(* c_cc entries VMIN and VTIME.                                            *)

\* what tcgetattr returns on a terminal in its usual line mode
CookedAttr ==
    [lflag |-> {"ECHO", "ICANON", "ISIG"}, oflag |-> {"OPOST"},
     vmin |-> 1, vtime |-> 0]

\* original_ and current_ are both read from the terminal at construction
TerminalSettings_new(attr) == [original_ |-> attr, current_ |-> attr]

\* `word &= to ? FLAG : ~FLAG`
AndWith(word, to, flag) == IF to THEN word \cap {flag} ELSE word \ {flag}

TerminalSettings_set_echo(ts, to) ==
    [ts EXCEPT !.current_.lflag = AndWith(@, to, "ECHO")]

TerminalSettings_set_canonical(ts, to) ==
    [ts EXCEPT !.current_.lflag = AndWith(@, to, "ICANON")]

TerminalSettings_set_min_chars_for_non_canonical_read(ts, n) ==
    [ts EXCEPT !.current_.vmin = n % 256]

TerminalSettings_set_timeout_for_non_canonical_read(ts, n) ==
    [ts EXCEPT !.current_.vtime = n % 256]

\* `c_lflag &= to ? ~ISIG : ISIG`
TerminalSettings_set_ctrlc_ctrlz_as_characters(ts, to) ==
    [ts EXCEPT !.current_.lflag = AndWith(@, ~to, "ISIG")]

\* `c_oflag &= to ? ~OPOST : OPOST`
TerminalSettings_set_output_processing(ts, to) ==
    [ts EXCEPT !.current_.oflag = AndWith(@, ~to, "OPOST")]

\* apply() and reset(): the termios handed to tcsetattr
TerminalSettings_apply(ts) == ts.current_
TerminalSettings_reset(ts) == ts.original_

Terminal_new == [settings_ |-> TerminalSettings_new(CookedAttr)]
Terminal_set_settings(t, ts) == [t EXCEPT !.settings_ = ts]
Terminal_apply_settings(t) == TerminalSettings_apply(t.settings_)
Terminal_reset_settings(t) == TerminalSettings_reset(t.settings_)

\* the settings main() builds before it constructs the Readline
MainSettings ==
    TerminalSettings_set_min_chars_for_non_canonical_read(
      TerminalSettings_set_timeout_for_non_canonical_read(
        TerminalSettings_set_ctrlc_ctrlz_as_characters(
          TerminalSettings_set_output_processing(
            TerminalSettings_set_canonical(
              TerminalSettings_set_echo(TerminalSettings_new(CookedAttr), FALSE),
              FALSE),
            FALSE),
          TRUE),
        0),
      1)

----------------------------------------------------------------------------
(* struct CommandSequences: the trie as a function from the path of each   *)
(* node to its command; an empty std::function is NoCommand               *)

NoCommand == ""
Root == <<>>

CommandSequences_new == [n \in {Root} |-> NoCommand]

CommandSequences_contains(trie, node, k) == Append(node, k) \in DOMAIN trie

CommandSequences_empty(trie, node) ==
    \A n \in DOMAIN trie :
        ~(Len(n) = Len(node) + 1 /\ SubSeq(n, 1, Len(node)) = node)

\* an insert that makes a fresh child node at every step of the path, dropping
\* the node that was there and all below it
RECURSIVE CommandSequences_insert_fresh_nodes(_, _, _, _)
CommandSequences_insert_fresh_nodes(trie, node, rest, command) ==
    IF rest = <<>>
    THEN [trie EXCEPT ![node] = command]
    ELSE LET child == Append(node, Head(rest))
             below(n) == Len(n) > Len(child) /\ SubSeq(n, 1, Len(child)) = child
             kept == {n \in DOMAIN trie : ~below(n)} \cup {child}
             grown == [n \in kept |-> IF n = child THEN NoCommand ELSE trie[n]]
         IN  CommandSequences_insert_fresh_nodes(grown, child, Tail(rest), command)

RECURSIVE CommandSequences_insert(_, _, _, _)
CommandSequences_insert(trie, node, rest, command) ==
    IF rest = <<>>
    THEN [trie EXCEPT ![node] = command]
    ELSE LET child == Append(node, Head(rest))
             grown == IF CommandSequences_contains(trie, node, Head(rest))
                      THEN trie
                      ELSE [n \in DOMAIN trie \cup {child} |->
                                IF n = child THEN NoCommand ELSE trie[n]]
         IN  CommandSequences_insert(grown, child, Tail(rest), command)

----------------------------------------------------------------------------
(* struct CommandReader *)

\* CommandReader(is): input_ is a reference, bound here for good to the
\* stream named `is`
CommandReader_on(is) ==
    [commands_ |-> CommandSequences_new, default_ |-> NoCommand,
     should_stop_ |-> FALSE, curchar_ |-> 0, input_ |-> is]

\* a CommandReader on std::cin, as Readline constructs its own
CommandReader_new == CommandReader_on("cin")

CommandReader_add_command(cr, key, f) ==
    [cr EXCEPT !.commands_ = CommandSequences_insert(cr.commands_, Root, key, f)]

CommandReader_set_default(cr, f) == [cr EXCEPT !.default_ = f]

\* a shortest-match dispatcher: any node with a command fires on descent
is_longest_sequence_any_command(trie, node) == trie[node] # NoCommand

\* a dispatcher without the leaf rule: nothing fires on descent
is_longest_sequence_never(trie, node) == FALSE

is_longest_sequence(trie, node) ==
    CommandSequences_empty(trie, node) /\ trie[node] # NoCommand

----------------------------------------------------------------------------
(* The display.  Terminal writes escape sequences with write(2), output_   *)
(* (std::cout, tied to std::cin and so flushed before every get()) writes  *)
(* text; both reach the same terminal in program order.  The terminal is   *)
(* its current line, `row`, one char per cell, and the cursor column       *)
(* `col`, counted from 1.  `log` lists what the command now running has    *)
(* sent, each as <<kind, n>> with n the column, the count of cells or the  *)
(* length of the text; `fail_in` = k > 0 says that the k-th write from now *)
(* fails, and `bad` is the badbit of output_.                              *)

Display_new ==
    [row |-> <<>>, col |-> 1, log |-> <<>>, fail_in |-> 0, bad |-> FALSE]

DisplayOp(kind, n, text) == [op |-> kind, n |-> n, text |-> text]

\* the terminal writes `text` over the cells from the cursor on
Display_put(d, text) ==
    LET before == d.col - 1
        padded == d.row \o [i \in 1 .. (before - Len(d.row)) |-> 32]
        after  == before + Len(text)
    IN  [d EXCEPT !.row = SubSeq(padded, 1, before) \o text
                              \o SubSeq(padded, after + 1, Len(padded)),
                  !.col = after + 1]

\* what the terminal does with each EscapeSequence, with text and with a
\* line feed
Display_apply(d, o) ==
    CASE o.op = "abs"   -> [d EXCEPT !.col = IF o.n < 1 THEN 1 ELSE o.n]
      [] o.op = "back"  -> [d EXCEPT !.col = IF d.col > 1 THEN d.col - 1 ELSE 1]
      [] o.op = "fwd"   -> [d EXCEPT !.col = d.col + o.n]
      [] o.op = "clear" -> [d EXCEPT !.row = IF Len(d.row) >= d.col
                                            THEN SubSeq(d.row, 1, d.col - 1)
                                            ELSE d.row]
      [] o.op = "text"  -> Display_put(d, o.text)
      [] o.op = "endl"  -> [d EXCEPT !.row = <<>>]

\* a write that went through: the terminal acts on it
Display_written(d, o) ==
    [Display_apply(d, o) EXCEPT
         !.log = Append(d.log, <<o.op, IF o.op = "text" THEN Len(o.text) ELSE o.n>>),
         !.fail_in = IF d.fail_in > 0 THEN d.fail_in - 1 ELSE 0]

WriteError == [what |-> "write", value |-> 0]

\* Terminal::write_sequence: a failed or short write(2) throws.  A
\* statement reached after an exception is not run.
Terminal_write_sequence(m, o) ==
    IF m.error.what # "" THEN m
    ELSE IF m.display.fail_in = 1
    THEN [m EXCEPT !.error = WriteError, !.display.fail_in = 0]
    ELSE [m EXCEPT !.display = Display_written(m.display, o)]

Terminal_move_cursor_forward(m) ==
    Terminal_write_sequence(m, DisplayOp("fwd", 1, <<>>))
Terminal_move_cursor_backward(m) ==
    Terminal_write_sequence(m, DisplayOp("back", 1, <<>>))
Terminal_clear_the_line(m) ==
    Terminal_write_sequence(m, DisplayOp("clear", 0, <<>>))
Terminal_move_cursor_horizontal_absolute(m, n) ==
    Terminal_write_sequence(m, DisplayOp("abs", n, <<>>))

\* `output_.get() << ...`: a failed write sets the badbit and throws
\* nothing; a stream with the badbit set writes nothing more
Ostream_write(m, o) ==
    IF m.error.what # "" \/ m.display.bad THEN m
    ELSE IF m.display.fail_in = 1
    THEN [m EXCEPT !.display.bad = TRUE, !.display.fail_in = 0]
    ELSE [m EXCEPT !.display = Display_written(m.display, o)]

----------------------------------------------------------------------------
(* class Prompt and Completion.  The function set is the text it returns;  *)
(* `calls` counts its calls since read() was entered.                      *)

Prompt_new == [set |-> FALSE, text |-> <<>>, prompt_ |-> <<>>, calls |-> 0]

Prompt_set_prompt(p, text) == [p EXCEPT !.set = TRUE, !.text = text]

\* operator(): calls the function and keeps what it returned
Prompt_call(p) == [p EXCEPT !.prompt_ = p.text, !.calls = p.calls + 1]

Prompt_size(p) == Len(p.prompt_)

NoCompletion == ""

\* the completion function of the sessions: it completes every text to "AB"
Completion_call(c, text) == <<65, 66>>

----------------------------------------------------------------------------
(* class Readline: the commands its constructor binds.  Each works on the  *)
(* objects a command can reach: m = [buffer_, history_, should_stop_,      *)
(* fired, added]                                                           *)

\* add_history() that does not store a line equal to the newest entry
Readline_add_history_skipping_duplicate(m) ==
    IF /\ ~History_empty(m.history_.entries_)
       /\ m.history_.entries_[Len(m.history_.entries_)] = Buffer_data(m.buffer_)
    THEN m
    ELSE [m EXCEPT !.history_ = HistoryView_add_line(m.history_, Buffer_data(m.buffer_)),
                   !.added = Append(m.added, Buffer_data(m.buffer_))]

Readline_add_history(m) ==
    [m EXCEPT !.history_ = HistoryView_add_line(m.history_, Buffer_data(m.buffer_)),
              !.added = Append(m.added, Buffer_data(m.buffer_))]

\* `r`, unless an exception is on its way out of the command
Run(m, r) == IF m.error.what # "" THEN m ELSE r

\* `output_.get() << buffer_`
Readline_write_buffer(m) ==
    Ostream_write(m, DisplayOp("text", 0, Buffer_data(m.buffer_)))

do_write_char(m, ch) ==
    LET position_after_prompt_ == Prompt_size(m.prompter_) + 1
        moved == Terminal_move_cursor_horizontal_absolute(m, position_after_prompt_)
        inserted == Run(moved, [moved EXCEPT
                                    !.buffer_ = Buffer_insert(moved.buffer_, ch)])
        written == Readline_write_buffer(inserted)
    IN  Terminal_move_cursor_horizontal_absolute(
            written, position_after_prompt_ + Buffer_position(written.buffer_))

\* a backspace that steps the cursor back from the end of what it wrote
\* instead of sending it to its column
do_backspace_stepping_back(m) ==
    IF Buffer_position(m.buffer_) # 0
    THEN LET moved == Terminal_move_cursor_horizontal_absolute(
                          m, Prompt_size(m.prompter_) + 1)
             cleared == Terminal_clear_the_line(moved)
             removed == Run(cleared, [cleared EXCEPT
                                          !.buffer_ = Buffer_remove(cleared.buffer_)])
             written == Readline_write_buffer(removed)
         IN  IF Buffer_position(written.buffer_) < Buffer_size(written.buffer_)
             THEN Terminal_move_cursor_backward(written)
             ELSE written
    ELSE m

do_backspace(m) ==
    IF Buffer_position(m.buffer_) # 0
    THEN LET moved == Terminal_move_cursor_horizontal_absolute(
                          m, Prompt_size(m.prompter_) + 1)
             cleared == Terminal_clear_the_line(moved)
             removed == Run(cleared, [cleared EXCEPT
                                          !.buffer_ = Buffer_remove(cleared.buffer_)])
             written == Readline_write_buffer(removed)
         IN  Terminal_move_cursor_horizontal_absolute(
                 written,
                 Prompt_size(m.prompter_) + Buffer_position(written.buffer_) + 1)
    ELSE m

\* a clear-line that asks the prompt function for the prompt again
do_clear_line_calling_prompt(m) ==
    LET emptied == [m EXCEPT !.buffer_ = Buffer_clear(m.buffer_),
                             !.prompter_ = Prompt_call(m.prompter_)]
        moved == Terminal_move_cursor_horizontal_absolute(
                     emptied, Prompt_size(emptied.prompter_) + 1)
    IN  Terminal_clear_the_line(moved)

do_clear_line(m) ==
    LET emptied == [m EXCEPT !.buffer_ = Buffer_clear(m.buffer_)]
        moved == Terminal_move_cursor_horizontal_absolute(
                     emptied, Prompt_size(m.prompter_) + 1)
    IN  Terminal_clear_the_line(moved)

\* what do_accept_command does after the line feed and the history entry
Readline_finish_accept(stored) ==
    LET reset == [stored EXCEPT
                      !.history_ = HistoryView_reset_position(stored.history_)]
        moved == Terminal_move_cursor_horizontal_absolute(reset, 0)
    IN  Run(moved, [moved EXCEPT !.should_stop_ = TRUE])

\* an accept that does not store an empty line
do_accept_command_skip_empty(m) ==
    LET fed == Ostream_write(m, DisplayOp("endl", 0, <<>>))
    IN  Readline_finish_accept(
            IF Buffer_empty(fed.buffer_) THEN fed ELSE Readline_add_history(fed))

\* an accept that leaves the history cursor where navigation put it
do_accept_command_keeping_position(m) ==
    LET fed == Ostream_write(m, DisplayOp("endl", 0, <<>>))
        stored == Readline_add_history(fed)
        moved == Terminal_move_cursor_horizontal_absolute(stored, 0)
    IN  Run(moved, [moved EXCEPT !.should_stop_ = TRUE])

do_accept_command(m) ==
    LET fed == Ostream_write(m, DisplayOp("endl", 0, <<>>))
    IN  Readline_finish_accept(Readline_add_history(fed))

\* a Ctrl-D that stores the line it cancels, the way an accept does
do_control_d_storing(m) ==
    IF Buffer_empty(m.buffer_)
    THEN [Readline_add_history(m) EXCEPT !.should_stop_ = TRUE]
    ELSE m

\* a Ctrl-D that stops reading whatever the buffer holds
do_control_d_always_stopping(m) == [m EXCEPT !.should_stop_ = TRUE]

do_control_d(m) ==
    IF Buffer_empty(m.buffer_) THEN [m EXCEPT !.should_stop_ = TRUE] ELSE m

do_move_left(m) ==
    IF Buffer_position(m.buffer_) # 0
    THEN Terminal_move_cursor_backward(
             [m EXCEPT !.buffer_ = Buffer_move_left(m.buffer_)])
    ELSE m

do_move_right(m) ==
    IF Buffer_position(m.buffer_) < Buffer_size(m.buffer_)
    THEN Terminal_move_cursor_forward(
             [m EXCEPT !.buffer_ = Buffer_move_right(m.buffer_)])
    ELSE m

\* the buffer takes the recalled line, which is then written
Readline_show_recalled(cleared, recalled) ==
    Readline_write_buffer(
        Run(cleared, [cleared EXCEPT
                          !.buffer_ = Buffer_reset(cleared.buffer_, recalled.ret),
                          !.history_ = recalled.view]))

\* recall-previous without the test for an empty history
do_history_up_unguarded(m) ==
    Readline_show_recalled(do_clear_line(m), HistoryView_previous(m.history_))

do_history_up(m) ==
    IF HistoryView_size(m.history_) # 0
    THEN Readline_show_recalled(do_clear_line(m), HistoryView_previous(m.history_))
    ELSE m

do_history_down(m) ==
    IF HistoryView_size(m.history_) # 0
    THEN Readline_show_recalled(do_clear_line(m), HistoryView_next(m.history_))
    ELSE m

\* a Tab that is typed into the buffer like any other char
do_autocomplete_writing_tab(m) == do_write_char(m, TAB)

do_autocomplete(m) ==
    IF m.completion_ # NoCompletion
    THEN LET moved == Terminal_move_cursor_horizontal_absolute(
                          m, Prompt_size(m.prompter_) + 1)
             cleared == Terminal_clear_the_line(moved)
             completed == Run(cleared, [cleared EXCEPT !.buffer_ =
                              Buffer_reset(cleared.buffer_,
                                  Completion_call(cleared.completion_,
                                                  Buffer_data(cleared.buffer_)))])
             written == Readline_write_buffer(completed)
         IN  Terminal_move_cursor_horizontal_absolute(
                 written,
                 Prompt_size(m.prompter_) + Buffer_position(written.buffer_) + 1)
    ELSE m

do_print_prompt(m) ==
    IF m.prompter_.set
    THEN LET called == [m EXCEPT !.prompter_ = Prompt_call(m.prompter_)]
         IN  Ostream_write(called, DisplayOp("text", 0, called.prompter_.prompt_))
    ELSE m

\* the bindings of Readline::Readline, in its order
Readline_bindings ==
    << <<<<CTRL_U>>, "do_clear_line">>,
       <<<<CTRL_C>>, "do_clear_line">>,
       <<<<BACKSPACE>>, "do_backspace">>,
       <<<<CTRL_D>>, "do_control_d">>,
       <<<<NEWLINE>>, "do_accept_command">>,
       <<<<TAB>>, "do_autocomplete">>,
       <<MOVE_LEFT, "do_move_left">>,
       <<MOVE_RIGHT, "do_move_right">>,
       <<MOVE_DOWN, "do_history_up">>,
       <<MOVE_UP, "do_history_down">> >>

RECURSIVE Readline_bind(_, _)
Readline_bind(cr, bindings) ==
    IF bindings = <<>>
    THEN cr
    ELSE Readline_bind(
             CommandReader_add_command(cr, Head(bindings)[1], Head(bindings)[2]),
             Tail(bindings))

Readline_new ==
    CommandReader_set_default(Readline_bind(CommandReader_new, Readline_bindings),
                              "do_write_char")

\* calling the std::function `f`: a Readline command, or a command of a
\* CommandReader under test, which records its name and current_char()
Invoke(f, m, ch) ==
    CASE f = "do_write_char" -> do_write_char(m, ch)
      [] f = "do_backspace" -> do_backspace(m)
      [] f = "do_clear_line" -> do_clear_line(m)
      [] f = "do_accept_command" -> do_accept_command(m)
      [] f = "do_control_d" -> do_control_d(m)
      [] f = "do_move_left" -> do_move_left(m)
      [] f = "do_move_right" -> do_move_right(m)
      [] f = "do_history_up" -> do_history_up(m)
      [] f = "do_history_down" -> do_history_down(m)
      [] f = "do_autocomplete" -> do_autocomplete(m)
      [] OTHER -> [m EXCEPT !.fired = Append(m.fired, [command |-> f, ch |-> ch])]

----------------------------------------------------------------------------
(* CommandReader::read_and_execute: one turn of its while loop, from       *)
(* input_.get() to the end of the loop body.  The result names the command *)
(* run (`op`), the objects afterwards (`m`), the node `sequence` points to,*)
(* the stream, and the exception thrown, if any.                           *)

NoError == [what |-> "", value |-> 0]

\* a run_default that throws although it has called the default
run_default_then_throwing(cr, m, ch) ==
    [op |-> "throw",
     m |-> IF cr.default_ # NoCommand THEN Invoke(cr.default_, m, ch) ELSE m,
     error |-> [what |-> "Unknown command: ", value |-> ch]]

\* a run_default that lets an unknown byte pass when no default is set
run_default_ignoring_unknown(cr, m, ch) ==
    IF cr.default_ # NoCommand
    THEN [op |-> cr.default_, m |-> Invoke(cr.default_, m, ch), error |-> NoError]
    ELSE [op |-> "ignore", m |-> m, error |-> NoError]

\* the lambda run_default: the default command, or the exception when there
\* is none
run_default(cr, m, ch) ==
    IF cr.default_ # NoCommand
    THEN [op |-> cr.default_, m |-> Invoke(cr.default_, m, ch), error |-> NoError]
    ELSE [op |-> "throw", m |-> m,
          error |-> [what |-> "Unknown command: ", value |-> ch]]

read_and_execute_turn(cr, seq, st, m, next) ==
    LET ch == to_char(Stream_peek(st, next))
        got == Stream_get(st, next)
        trie == cr.commands_
        step(op, m2, seq2, st2, err) ==
            [op |-> op, m |-> m2, sequence |-> seq2, input |-> st2,
             curchar_ |-> ch,
             error |-> IF err # NoError THEN err ELSE m2.error]
    IN  IF ch = EOF
        THEN step("EOF", [m EXCEPT !.should_stop_ = TRUE], seq, got, NoError)
        ELSE IF ~CommandSequences_contains(trie, seq, ch)
        THEN IF trie[seq] = NoCommand
             THEN LET d == run_default(cr, m, ch)
                  IN  step(d.op, d.m, IF d.error = NoError THEN Root ELSE seq,
                           got, d.error)
             ELSE LET ran == Invoke(trie[seq], m, ch)
                  IN  step(trie[seq], ran, Root,
                           IF ran.error = NoError THEN Stream_unget(got) ELSE got,
                           NoError)
        ELSE LET node == Append(seq, ch)
             IN  IF is_longest_sequence(trie, node)
                 THEN step(trie[node], Invoke(trie[node], m, ch), Root, got,
                           NoError)
                 ELSE step("descend", m, node, got, NoError)

\* the objects the commands work on, as they are now
Objects ==
    [buffer_ |-> buffer_, history_ |-> history_,
     should_stop_ |-> command_reader_.should_stop_, fired |-> fired,
     added |-> added, prompter_ |-> prompter_, completion_ |-> completion_,
     display |-> [display EXCEPT !.log = <<>>], error |-> NoError]

NoStatus == [kind |-> "none", value |-> <<>>, error |-> NoError]

\* a read() that returns the buffer only when the buffer is the line that was
\* committed last
ReturnValue_committed_only(caller, m) ==
    IF /\ caller = "read"
       /\ m.added # <<>>
       /\ m.added[Len(m.added)] = Buffer_data(m.buffer_)
    THEN Buffer_data(m.buffer_)
    ELSE <<>>

\* what the caller of read_and_execute returns once the loop has ended:
\* Readline::read returns buffer_.data(), read_and_execute itself nothing
ReturnValue(caller, m) ==
    IF caller = "read" THEN Buffer_data(m.buffer_) ELSE <<>>

\* one turn of the loop, on the variables
Turn(next, caller) ==
    \E t \in {read_and_execute_turn(command_reader_, sequence, input, Objects, next)} :
        /\ buffer_' = t.m.buffer_
        /\ history_' = t.m.history_
        /\ fired' = t.m.fired
        /\ added' = t.m.added
        /\ command_reader_' = [command_reader_ EXCEPT
                                   !.should_stop_ = t.m.should_stop_,
                                   !.curchar_ = t.curchar_]
        /\ sequence' = t.sequence
        /\ input' = t.input
        /\ call' = [op |-> t.op, arg |-> <<t.curchar_>>, ret |-> <<>>,
                    at |-> buffer_.cursor_pos_]
        /\ IF t.error # NoError
           THEN /\ pc' = "idle"
                /\ status' = [kind |-> "threw", value |-> <<>>, error |-> t.error]
           ELSE IF t.m.should_stop_
           THEN /\ pc' = "idle"
                /\ status' = [kind |-> "returned",
                              value |-> ReturnValue(caller, t.m),
                              error |-> NoError]
           ELSE /\ pc' = "reading"
                /\ UNCHANGED status
        /\ prompter_' = t.m.prompter_
        /\ display' = t.m.display
        /\ UNCHANGED <<plain_char_signed, nav, terminal_, stdin_attr, completion_, input_>>

----------------------------------------------------------------------------
(* SpecBuffer: every Buffer method, called in any order *)

InitBuffer ==
    /\ buffer_ = Buffer_new
    /\ history_ = HistoryView_new
    /\ command_reader_ = CommandReader_new
    /\ sequence = Root
    /\ input = Stream_new
    /\ plain_char_signed = TRUE
    /\ pc = "idle"
    /\ status = NoStatus
    /\ call = NoCall
    /\ added = <<>>
    /\ nav = NavAt(HistoryView_new)
    /\ fired = <<>>
    /\ consumed = <<>>
    /\ terminal_ = Terminal_new
    /\ stdin_attr = CookedAttr
    /\ prompter_ = Prompt_new
    /\ input_ = "cin"
    /\ completion_ = NoCompletion
    /\ display = Display_new

\* what no Buffer or HistoryView method touches
ReaderFrame ==
    UNCHANGED <<command_reader_, sequence, input, plain_char_signed, pc, status,
                fired, consumed, terminal_, stdin_attr,
                prompter_, completion_, display, input_>>

BufferFrame == ReaderFrame /\ UNCHANGED <<history_, added, nav>>

CallInsert ==
    \E c \in BufChars :
        /\ Len(buffer_.data_) < MaxBufLen
        /\ buffer_' = Buffer_insert(buffer_, c)
        /\ call' = [op |-> "insert", arg |-> <<c>>, ret |-> <<>>,
                  at |-> buffer_.cursor_pos_]
        /\ BufferFrame

CallMoveLeft ==
    /\ buffer_' = Buffer_move_left(buffer_)
    /\ call' = [op |-> "move_left", arg |-> <<>>, ret |-> <<>>,
                  at |-> buffer_.cursor_pos_]
    /\ BufferFrame

CallMoveRight ==
    /\ buffer_' = Buffer_move_right(buffer_)
    /\ call' = [op |-> "move_right", arg |-> <<>>, ret |-> <<>>,
                  at |-> buffer_.cursor_pos_]
    /\ BufferFrame

CallRemove ==
    /\ buffer_' = Buffer_remove(buffer_)
    /\ call' = [op |-> "remove", arg |-> <<>>, ret |-> <<>>,
                  at |-> buffer_.cursor_pos_]
    /\ BufferFrame

CallClear ==
    /\ buffer_' = Buffer_clear(buffer_)
    /\ call' = [op |-> "clear", arg |-> <<>>, ret |-> <<>>,
                  at |-> buffer_.cursor_pos_]
    /\ BufferFrame

\* reset(s) is called with a line recalled from history or a completion
CallReset ==
    \E s \in HistLines :
        /\ buffer_' = Buffer_reset(buffer_, s)
        /\ call' = [op |-> "reset", arg |-> s, ret |-> <<>>,
                  at |-> buffer_.cursor_pos_]
        /\ BufferFrame

NextBuffer ==
    \/ CallInsert
    \/ CallMoveLeft
    \/ CallMoveRight
    \/ CallRemove
    \/ CallClear
    \/ CallReset

SpecBuffer == InitBuffer /\ [][NextBuffer]_vars

----------------------------------------------------------------------------
(* SpecHistory: every HistoryView method, called in any order *)

InitHistory == InitBuffer

\* one more previous() in a run that has seen no next() yet
NavPrevious ==
    IF nav.ok /\ nav.nn = 0 /\ nav.np < MaxNav
    THEN [nav EXCEPT !.np = nav.np + 1]
    ELSE [nav EXCEPT !.ok = FALSE]

NavNext ==
    IF nav.ok /\ nav.nn < MaxNav
    THEN [nav EXCEPT !.nn = nav.nn + 1]
    ELSE [nav EXCEPT !.ok = FALSE]

CallAddLine ==
    \E line \in HistLines :
        /\ Len(added) < MaxAdded
        /\ history_' = HistoryView_add_line(history_, line)
        /\ added' = Append(added, line)
        /\ call' = [op |-> "add_line", arg |-> line, ret |-> <<>>,
                    at |-> history_.current_line_]
        /\ nav' = NavAt(history_')
        /\ ReaderFrame /\ UNCHANGED buffer_

CallResetPosition ==
    /\ history_' = HistoryView_reset_position(history_)
    /\ call' = [op |-> "reset_position", arg |-> <<>>, ret |-> <<>>,
                at |-> history_.current_line_]
    /\ nav' = NavAt(history_')
    /\ ReaderFrame /\ UNCHANGED <<buffer_, added>>

CallPrevious ==
    /\ history_' = HistoryView_previous(history_).view
    /\ call' = [op |-> "previous", arg |-> <<>>,
                ret |-> HistoryView_previous(history_).ret,
                at |-> history_.current_line_]
    /\ nav' = NavPrevious
    /\ ReaderFrame /\ UNCHANGED <<buffer_, added>>

CallNext ==
    /\ history_' = HistoryView_next(history_).view
    /\ call' = [op |-> "next", arg |-> <<>>,
                ret |-> HistoryView_next(history_).ret,
                at |-> history_.current_line_]
    /\ nav' = NavNext
    /\ ReaderFrame /\ UNCHANGED <<buffer_, added>>

NextHistory ==
    \/ CallAddLine
    \/ CallResetPosition
    \/ CallPrevious
    \/ CallNext

SpecHistory == InitHistory /\ [][NextHistory]_vars

----------------------------------------------------------------------------
(* SpecCR: a CommandReader under test.  Commands that record their name   *)
(* are registered in any order, then read_and_execute runs over a stream  *)
(* the test supplies.                                                     *)

\* bytes of the test streams: 'a' 'b' 'c' 'x' and 0xFF
CRBytes == {97, 98, 99, 120, 255}
\* the registrations a test may make: 'a', "ab", "abc"
TestCommands ==
    { <<<<97>>, "a">>, <<<<97, 98>>, "ab">>, <<<<97, 98, 99>>, "abc">> }

Registered(trie, name) == \E n \in DOMAIN trie : trie[n] = name

InitCR ==
    /\ buffer_ = Buffer_new
    /\ history_ = HistoryView_new
    /\ command_reader_ = CommandReader_new
    /\ sequence = Root
    /\ input = Stream_new
    /\ plain_char_signed \in BOOLEAN
    /\ pc = "idle"
    /\ status = NoStatus
    /\ call = NoCall
    /\ added = <<>>
    /\ nav = NavAt(HistoryView_new)
    /\ fired = <<>>
    /\ consumed = <<>>
    /\ terminal_ = Terminal_new
    /\ stdin_attr = CookedAttr
    /\ prompter_ = Prompt_new
    /\ input_ = "cin"
    /\ completion_ = NoCompletion
    /\ display = Display_new

ConfigFrame ==
    UNCHANGED <<buffer_, history_, sequence, input, plain_char_signed, pc,
                status, added, nav, fired, consumed, terminal_, stdin_attr,
                prompter_, completion_, display, input_>>

AddCommand ==
    \E reg \in TestCommands :
        /\ pc = "idle"
        /\ input.count = 0
        /\ ~Registered(command_reader_.commands_, reg[2])
        /\ command_reader_' = CommandReader_add_command(command_reader_, reg[1], reg[2])
        /\ call' = [op |-> "add_command", arg |-> reg[1], ret |-> <<>>, at |-> 0]
        /\ ConfigFrame

SetDefault ==
    /\ pc = "idle"
    /\ input.count = 0
    /\ command_reader_.default_ = NoCommand
    /\ command_reader_' = CommandReader_set_default(command_reader_, "default")
    /\ call' = [op |-> "set_default", arg |-> <<>>, ret |-> <<>>, at |-> 0]
    /\ ConfigFrame

\* read_and_execute() is entered: `sequence` starts at the root, and the
\* loop is not entered at all when should_stop_ is already set
CallReadAndExecute ==
    /\ pc = "idle"
    /\ input.count < MaxFeed
    /\ sequence' = Root
    /\ call' = [op |-> "read_and_execute", arg |-> <<>>, ret |-> <<>>, at |-> 0]
    /\ IF command_reader_.should_stop_
       THEN /\ pc' = "idle"
            /\ status' = [kind |-> "returned", value |-> <<>>, error |-> NoError]
       ELSE /\ pc' = "reading"
            /\ status' = NoStatus
    /\ UNCHANGED <<buffer_, history_, command_reader_, input, plain_char_signed,
                   added, nav, fired, consumed, terminal_, stdin_attr,
                   prompter_, completion_, display, input_>>

\* one turn of the loop of read_and_execute
TurnCR ==
    \E next \in CRBytes \cup {EOF} :
        /\ pc = "reading"
        /\ input.count < MaxFeed
        /\ Turn(next, "read_and_execute")
        /\ consumed' = IF input.eof \/ input.unget \/ next = EOF
                       THEN consumed
                       ELSE Append(consumed, next)

NextCR ==
    \/ AddCommand
    \/ SetDefault
    \/ CallReadAndExecute
    \/ TurnCR

SpecCR == InitCR /\ [][NextCR]_vars

----------------------------------------------------------------------------
(* SpecRoot: SpecCR with one more registration a test may make, the empty  *)
(* sequence.  insert's loop does not run for it, so the command is put on  *)
(* the root node itself.                                                   *)

RootCommand == << <<>>, "root" >>

AddRootCommand ==
    /\ pc = "idle"
    /\ input.count = 0
    /\ ~Registered(command_reader_.commands_, RootCommand[2])
    /\ command_reader_' =
           CommandReader_add_command(command_reader_, RootCommand[1], RootCommand[2])
    /\ call' = [op |-> "add_command", arg |-> RootCommand[1], ret |-> <<>>,
                at |-> 0]
    /\ ConfigFrame

NextRoot ==
    \/ AddCommand
    \/ AddRootCommand
    \/ SetDefault
    \/ CallReadAndExecute
    \/ TurnCR

SpecRoot == InitCR /\ [][NextRoot]_vars

----------------------------------------------------------------------------
(* Spec: a default-constructed Readline and its read() calls *)

\* bytes the terminal sends: the bound keys (Ctrl-C, bound like Ctrl-U, is
\* left to Ctrl-U) and the bytes of the arrow sequences, '[' 'A' 'B' 'C' 'D',
\* which are printable on their own
RLBytes ==
    {NEWLINE, TAB, CTRL_D, CTRL_U, BACKSPACE, ESC, LBRACKET, 65, 66, 67, 68}

Init ==
    /\ buffer_ = Buffer_new
    /\ history_ = HistoryView_new
    /\ command_reader_ = Readline_new
    /\ sequence = Root
    /\ input = Stream_new
    /\ plain_char_signed \in BOOLEAN
    /\ pc = "idle"
    /\ status = NoStatus
    /\ call = NoCall
    /\ added = <<>>
    /\ nav = NavAt(HistoryView_new)
    /\ fired = <<>>
    /\ consumed = <<>>
    /\ terminal_ = Terminal_new
    /\ stdin_attr = CookedAttr
    /\ prompter_ = Prompt_new
    /\ input_ = "cin"
    /\ completion_ = NoCompletion
    /\ display = Display_new

\* a read() that keeps the buffer of the session before
Readline_read_prologue_keeping_buffer(m) ==
    LET fresh == [m EXCEPT !.should_stop_ = FALSE, !.prompter_.calls = 0]
    IN  do_print_prompt(Terminal_move_cursor_horizontal_absolute(fresh, 0))

\* read() up to its call of read_and_execute: the buffer is cleared, the
\* stop flag reset, the cursor sent to column 0 and the prompt printed
Readline_read_prologue(m) ==
    LET fresh == [m EXCEPT !.buffer_ = Buffer_clear(m.buffer_),
                           !.should_stop_ = FALSE,
                           !.prompter_.calls = 0]
    IN  do_print_prompt(Terminal_move_cursor_horizontal_absolute(fresh, 0))

\* read(), up to the first turn of read_and_execute's loop
Readline_read ==
    /\ pc = "idle"
    /\ input.count < MaxGets
    /\ \E r \in {Readline_read_prologue(Objects)} :
        /\ buffer_' = r.buffer_
        /\ command_reader_' = [command_reader_ EXCEPT
                                   !.should_stop_ = r.should_stop_]
        /\ prompter_' = r.prompter_
        /\ display' = r.display
        /\ IF r.error # NoError
           THEN /\ pc' = "idle"
                /\ status' = [kind |-> "threw", value |-> <<>>, error |-> r.error]
           ELSE /\ pc' = "reading"
                /\ status' = NoStatus
    /\ sequence' = Root
    /\ call' = [op |-> "read", arg |-> <<>>, ret |-> <<>>,
                at |-> buffer_.cursor_pos_]
    /\ UNCHANGED <<history_, input, plain_char_signed, added, nav, fired,
                   consumed, terminal_, stdin_attr, completion_, input_>>

\* one turn of the loop of read_and_execute, and read()'s return once the
\* loop has ended
TurnRead ==
    \E next \in RLBytes \cup {EOF} :
        /\ pc = "reading"
        /\ input.count < MaxGets
        /\ Turn(next, "read")
        /\ UNCHANGED consumed

Next ==
    \/ Readline_read
    \/ TurnRead

Spec == Init /\ [][Next]_vars

----------------------------------------------------------------------------
(* SpecTerm: a Readline with its terminal, from set_terminal_settings to   *)
(* the destructor                                                          *)

\* the keys of the sessions: Enter, Ctrl-D and 'A'
TermBytes == {NEWLINE, CTRL_D, 65}

\* the settings a caller hands over: those of main(), or untouched ones
TermSettings == {MainSettings, TerminalSettings_new(CookedAttr)}

InitTerm == Init

TermFrame ==
    UNCHANGED <<buffer_, history_, command_reader_, sequence, input,
                plain_char_signed, status, added, nav, fired, consumed,
                prompter_, completion_, display, input_>>

Readline_set_terminal_settings ==
    \E s \in TermSettings :
        /\ pc = "idle"
        /\ terminal_' = Terminal_set_settings(terminal_, s)
        /\ stdin_attr' = Terminal_apply_settings(terminal_')
        /\ call' = [op |-> "set_terminal_settings", arg |-> <<>>, ret |-> <<>>,
                    at |-> 0]
        /\ UNCHANGED pc
        /\ TermFrame

\* read() when the write of its first cursor move fails: write_sequence
\* throws, and the exception leaves read()
Readline_read_write_fails ==
    /\ pc = "idle"
    /\ input.count < MaxGets
    /\ buffer_' = Buffer_clear(buffer_)
    /\ command_reader_' = [command_reader_ EXCEPT !.should_stop_ = FALSE]
    /\ status' = [kind |-> "threw", value |-> <<>>,
                  error |-> [what |-> "write", value |-> 0]]
    /\ call' = [op |-> "read", arg |-> <<>>, ret |-> <<>>,
                at |-> buffer_.cursor_pos_]
    /\ UNCHANGED <<history_, sequence, input, plain_char_signed, pc, added, nav,
                   fired, consumed, terminal_, stdin_attr,
                   prompter_, completion_, display, input_>>

TurnTerm ==
    \E next \in TermBytes \cup {EOF} :
        /\ pc = "reading"
        /\ input.count < MaxGets
        /\ Turn(next, "read")
        /\ UNCHANGED consumed

\* ~Readline()
Readline_destroy ==
    /\ pc = "idle"
    /\ pc' = "destroyed"
    /\ stdin_attr' = Terminal_reset_settings(terminal_)
    /\ call' = [op |-> "~Readline", arg |-> <<>>, ret |-> <<>>, at |-> 0]
    /\ UNCHANGED terminal_
    /\ TermFrame

NextTerm ==
    \/ Readline_set_terminal_settings
    \/ Readline_read
    \/ Readline_read_write_fails
    \/ TurnTerm
    \/ Readline_destroy

SpecTerm == InitTerm /\ [][NextTerm]_vars

----------------------------------------------------------------------------
(* SpecDisplay: a Readline with main()'s prompt, with or without a         *)
(* completion function, its read() calls and what they show                *)

\* "$> ", the prompt of main()
MainPrompt == <<36, 62, 32>>

\* the keys of Spec whose commands write to the display (Ctrl-D writes
\* nothing), and the byte 0xFF
DisplayBytes == (RLBytes \ {CTRL_D}) \cup {255}

InitDisplay ==
    /\ buffer_ = Buffer_new
    /\ history_ = HistoryView_new
    /\ command_reader_ = Readline_new
    /\ sequence = Root
    /\ input = Stream_new
    /\ plain_char_signed \in BOOLEAN
    /\ pc = "idle"
    /\ status = NoStatus
    /\ call = NoCall
    /\ added = <<>>
    /\ nav = NavAt(HistoryView_new)
    /\ fired = <<>>
    /\ consumed = <<>>
    /\ terminal_ = Terminal_new
    /\ stdin_attr = CookedAttr
    /\ prompter_ = Prompt_set_prompt(Prompt_new, MainPrompt)
    /\ input_ = "cin"
    /\ completion_ \in {NoCompletion, "completion"}
    /\ display = Display_new

TurnDisplay ==
    \E next \in DisplayBytes \cup {EOF} :
        /\ pc = "reading"
        /\ input.count < MaxGets
        /\ Turn(next, "read")
        /\ UNCHANGED consumed

NextDisplay ==
    \/ Readline_read
    \/ TurnDisplay

SpecDisplay == InitDisplay /\ [][NextDisplay]_vars

----------------------------------------------------------------------------
(* SpecOutput: a Readline with main()'s prompt on a display where one      *)
(* write fails or comes back short: the fail_in-th of the writes made by   *)
(* Terminal and by output_ together                                        *)

\* 'A', Backspace and Enter
OutputBytes == {65, BACKSPACE, NEWLINE}

InitOutput ==
    /\ buffer_ = Buffer_new
    /\ history_ = HistoryView_new
    /\ command_reader_ = Readline_new
    /\ sequence = Root
    /\ input = Stream_new
    /\ plain_char_signed \in BOOLEAN
    /\ pc = "idle"
    /\ status = NoStatus
    /\ call = NoCall
    /\ added = <<>>
    /\ nav = NavAt(HistoryView_new)
    /\ fired = <<>>
    /\ consumed = <<>>
    /\ terminal_ = Terminal_new
    /\ stdin_attr = CookedAttr
    /\ prompter_ = Prompt_set_prompt(Prompt_new, MainPrompt)
    /\ input_ = "cin"
    /\ completion_ = NoCompletion
    /\ \E k \in 1 .. MaxFail : display = [Display_new EXCEPT !.fail_in = k]

TurnOutput ==
    \E next \in OutputBytes \cup {EOF} :
        /\ pc = "reading"
        /\ input.count < MaxGets
        /\ Turn(next, "read")
        /\ UNCHANGED consumed

NextOutput ==
    \/ Readline_read
    \/ TurnOutput

SpecOutput == InitOutput /\ [][NextOutput]_vars

----------------------------------------------------------------------------
(* SpecSettings: a TerminalSettings constructed on a terminal in any mode, *)
(* and calls of its setters.  terminal_.settings_ is the object.           *)

\* the flags of c_lflag and of c_oflag the terminal may have on: those the
\* setters name, and one more of each word
LocalFlags == {"ECHO", "ICANON", "ISIG", "IEXTEN"}
OutputFlags == {"OPOST", "ONLCR"}

InitSettings ==
    /\ buffer_ = Buffer_new
    /\ history_ = HistoryView_new
    /\ command_reader_ = CommandReader_new
    /\ sequence = Root
    /\ input = Stream_new
    /\ plain_char_signed = TRUE
    /\ pc = "idle"
    /\ status = NoStatus
    /\ call = NoCall
    /\ added = <<>>
    /\ nav = NavAt(HistoryView_new)
    /\ fired = <<>>
    /\ consumed = <<>>
    /\ \E l \in SUBSET LocalFlags : \E o \in SUBSET OutputFlags :
           /\ stdin_attr = [lflag |-> l, oflag |-> o, vmin |-> 1, vtime |-> 0]
           /\ terminal_ = [settings_ |-> TerminalSettings_new(stdin_attr)]
    /\ prompter_ = Prompt_new
    /\ input_ = "cin"
    /\ completion_ = NoCompletion
    /\ display = Display_new

SettingsFrame ==
    UNCHANGED <<buffer_, history_, command_reader_, sequence, input,
                plain_char_signed, pc, status, added, nav, fired, consumed,
                stdin_attr, prompter_, completion_, display, input_>>

CallSetEcho ==
    \E to \in BOOLEAN :
        /\ terminal_' = [settings_ |->
                             TerminalSettings_set_echo(terminal_.settings_, to)]
        /\ call' = [op |-> "set_echo", arg |-> <<to>>, ret |-> <<>>, at |-> 0]
        /\ SettingsFrame

CallSetCanonical ==
    \E to \in BOOLEAN :
        /\ terminal_' = [settings_ |->
                             TerminalSettings_set_canonical(terminal_.settings_, to)]
        /\ call' = [op |-> "set_canonical", arg |-> <<to>>, ret |-> <<>>, at |-> 0]
        /\ SettingsFrame

CallSetCtrlcCtrlzAsCharacters ==
    \E to \in BOOLEAN :
        /\ terminal_' = [settings_ |->
               TerminalSettings_set_ctrlc_ctrlz_as_characters(terminal_.settings_, to)]
        /\ call' = [op |-> "set_ctrlc_ctrlz_as_characters", arg |-> <<to>>,
                    ret |-> <<>>, at |-> 0]
        /\ SettingsFrame

CallSetOutputProcessing ==
    \E to \in BOOLEAN :
        /\ terminal_' = [settings_ |->
               TerminalSettings_set_output_processing(terminal_.settings_, to)]
        /\ call' = [op |-> "set_output_processing", arg |-> <<to>>,
                    ret |-> <<>>, at |-> 0]
        /\ SettingsFrame

NextSettings ==
    \/ CallSetEcho
    \/ CallSetCanonical
    \/ CallSetCtrlcCtrlzAsCharacters
    \/ CallSetOutputProcessing

SpecSettings == InitSettings /\ [][NextSettings]_vars

----------------------------------------------------------------------------
(* SpecInput: a Readline, a second stream `is` that the caller hands to    *)
(* set_input_stream, and read() calls.  `input` is the stream that         *)
(* command_reader_.input_ is bound to.                                     *)

\* what each stream holds: 'A's and newlines on std::cin, 'B's and
\* newlines on `is`
StreamBytes == [cin |-> {65, NEWLINE}, is |-> {66, NEWLINE}]

InitInput == Init

\* set_input_stream(is): the reference_wrapper input_ is assigned, and
\* nothing else is
Readline_set_input_stream ==
    /\ pc = "idle"
    /\ input_ = "cin"
    /\ input_' = "is"
    /\ call' = [op |-> "set_input_stream", arg |-> <<>>, ret |-> <<>>, at |-> 0]
    /\ UNCHANGED <<buffer_, history_, command_reader_, sequence, input,
                   plain_char_signed, pc, status, added, nav, fired, consumed,
                   terminal_, stdin_attr, prompter_, completion_, display>>

\* a turn of the loop: get() extracts from the stream the reader is bound to
TurnInput ==
    \E next \in StreamBytes[command_reader_.input_] \cup {EOF} :
        /\ pc = "reading"
        /\ input.count < MaxGets
        /\ Turn(next, "read")
        /\ consumed' = IF input.eof \/ input.unget \/ next = EOF
                       THEN consumed
                       ELSE Append(consumed, next)

NextInput ==
    \/ Readline_set_input_stream
    \/ Readline_read
    \/ TurnInput

SpecInput == InitInput /\ [][NextInput]_vars

----------------------------------------------------------------------------
(* SpecLines: a default-constructed Readline fed lines of printable        *)
(* characters, with the bytes it has read logged in `consumed`             *)

\* 'A', 'B', Enter and Ctrl-D
LineBytes == {65, 66, NEWLINE, CTRL_D}

InitLines == Init

TurnLines ==
    \E next \in LineBytes \cup {EOF} :
        /\ pc = "reading"
        /\ input.count < MaxGets
        /\ Turn(next, "read")
        /\ consumed' = IF input.eof \/ input.unget \/ next = EOF
                       THEN consumed
                       ELSE Append(consumed, next)

NextLines ==
    \/ Readline_read
    \/ TurnLines

SpecLines == InitLines /\ [][NextLines]_vars

----------------------------------------------------------------------------
(* Properties of Readline, under Spec *)

Last(s) == s[Len(s)]

\* C1: a newline dispatched from the trie root accepts: read() returns the
\* buffer content of that moment, and that content is the newest history
\* entry when read() returns.
AcceptReturnsBuffer ==
    [][(pc = "reading" /\ sequence = Root /\ call'.op # "read"
            /\ call'.arg = <<NEWLINE>>) =>
        /\ call'.op = "do_accept_command"
        /\ pc' = "idle"
        /\ status'.kind = "returned"
        /\ status'.value = buffer_.data_
        /\ history_'.entries_ # <<>>
        /\ Last(history_'.entries_) = buffer_.data_]_vars

\* "A" was accepted with the cursor moved back to 0, on an empty history
AcceptedWithCursorInside ==
    /\ call.op = "do_accept_command"
    /\ pc = "idle"
    /\ status.value = <<65>>
    /\ buffer_.cursor_pos_ = 0
    /\ history_.entries_ = << <<65>> >>

----------------------------------------------------------------------------
(* Properties of CommandReader, under SpecCR *)

AllRegistered(names) ==
    \A name \in names : Registered(command_reader_.commands_, name)
OnlyRegistered(names) ==
    \A name \in {"a", "ab", "abc"} :
        Registered(command_reader_.commands_, name) <=> name \in names

\* C2: with 'a', "ab" and "abc" registered, the bytes 'a' 'b' 'c' fire the
\* "abc" command exactly once and nothing else: nothing after 'a' or after
\* 'a' 'b', and "abc" alone once 'c' has been dispatched.
LongestOfChainFires ==
    (AllRegistered({"a", "ab", "abc"}) /\ (plain_char_signed \/ ~input.eof)) =>
        /\ consumed \in {<<97>>, <<97, 98>>} => fired = <<>>
        /\ consumed = <<97, 98, 99>> =>
               fired = << [command |-> "abc", ch |-> 99] >>
        /\ consumed \in {<<97>>, <<97, 98>>, <<97, 98, 99>>} =>
               status.kind # "threw"

\* 'a' 'b' 'c' went through a reader with all three commands and a default
ChainDispatched ==
    /\ AllRegistered({"a", "ab", "abc"})
    /\ command_reader_.default_ = "default"
    /\ consumed = <<97, 98, 99>>
    /\ sequence = Root
    /\ fired = << [command |-> "abc", ch |-> 99] >>

IsPrefix(p, s) == Len(p) <= Len(s) /\ SubSeq(s, 1, Len(p)) = p

\* the registered sequences that are prefixes of `bytes`
RegisteredPrefixes(trie, bytes) ==
    {n \in DOMAIN trie : trie[n] # NoCommand /\ IsPrefix(n, bytes)}

Longest(S) == CHOOSE n \in S : \A o \in S : Len(o) <= Len(n)

\* C3, as claimed: when the bytes consumed since the last return to the root
\* cannot be extended any more (the byte just read ends them), the command
\* that fires is that of the longest registered sequence that is a prefix of
\* those bytes.
LongestPrefixFiresAsClaimed ==
    [][(pc = "reading" /\ ~input'.eof /\ call'.op \notin
            {"add_command", "set_default", "read_and_execute", "descend", "EOF"}) =>
        LET bytes == Append(sequence, call'.arg[1])
            S == RegisteredPrefixes(command_reader_.commands_, bytes)
        IN  S # {} => call'.op = command_reader_.commands_[Longest(S)]]_vars

----------------------------------------------------------------------------
(* Properties of Buffer, under SpecBuffer *)

\* C4: after any sequence of insert, move_left, move_right, remove, reset
\* and clear calls, 0 <= position() <= size().
BufferCursorInRange ==
    /\ 0 <= Buffer_position(buffer_)
    /\ Buffer_position(buffer_) <= Buffer_size(buffer_)

\* move_left was called with the cursor already at 0 of a non-empty buffer
MoveLeftAtZero ==
    /\ call.op = "move_left"
    /\ call.at = 0
    /\ Buffer_size(buffer_) > 0

\* C5: insert(ch) on content s with cursor p leaves s[0..p) + ch + s[p..)
\* and cursor p + 1.
InsertSplitsAtCursor ==
    [][call'.op = "insert" =>
        LET s == buffer_.data_
            p == buffer_.cursor_pos_
        IN  /\ buffer_'.data_ =
                   SubSeq(s, 1, p) \o call'.arg \o SubSeq(s, p + 1, Len(s))
            /\ buffer_'.cursor_pos_ = p + 1]_vars

\* "abcd" with the cursor at 2 has become "abxcd" with the cursor at 3
InsertedInside ==
    /\ call.op = "insert"
    /\ call.arg = <<120>>
    /\ call.at = 2
    /\ buffer_ = [data_ |-> <<97, 98, 120, 99, 100>>, cursor_pos_ |-> 3]

\* C6: remove() with cursor p > 0 deletes exactly the character at index
\* p - 1 and leaves the cursor at p - 1; with p = 0 it changes nothing.
RemoveIsBackspace ==
    [][call'.op = "remove" =>
        LET s == buffer_.data_
            p == buffer_.cursor_pos_
        IN  IF p > 0
            THEN /\ buffer_'.data_ = SubSeq(s, 1, p - 1) \o SubSeq(s, p + 1, Len(s))
                 /\ buffer_'.cursor_pos_ = p - 1
            ELSE buffer_' = buffer_]_vars

\* remove() was called on "abc" with the cursor at 2 and left "ac", cursor 1
RemovedInside ==
    /\ call.op = "remove"
    /\ call.at = 2
    /\ buffer_ = [data_ |-> <<97, 99>>, cursor_pos_ |-> 1]

----------------------------------------------------------------------------
(* Properties of History and HistoryView, under SpecHistory *)

Min(a, b) == IF a < b THEN a ELSE b
Max(a, b) == IF a > b THEN a ELSE b

\* the last n elements of s
LastN(s, n) == SubSeq(s, Len(s) - n + 1, Len(s))

\* C7: size() <= capacity always, and after capacity + k lines were added
\* to an empty history the entries are the last `capacity` lines added, in
\* insertion order.
HistoryKeepsNewest ==
    /\ History_size(history_.entries_) <= max_entries_
    /\ history_.entries_ = LastN(added, Min(Len(added), max_entries_))

\* two lines more than the capacity were added
HistoryOverflowed ==
    /\ call.op = "add_line"
    /\ Len(added) = max_entries_ + 2
    /\ History_size(history_.entries_) = max_entries_

\* C8: from the cursor at n >= 1, the i-th consecutive previous() returns
\* entry n - i for i = 1..n and entry 0 from then on, the cursor never going
\* below 0; on an empty history previous() returns "" and keeps the cursor.
PreviousSaturates ==
    call.op = "previous" =>
        IF History_empty(history_.entries_)
        THEN call.ret = <<>> /\ history_.current_line_ = call.at
        ELSE (nav.ok /\ nav.nn = 0 /\ nav.start = nav.size) =>
                 LET line == Max(nav.size - nav.np, 0)
                 IN  /\ history_.current_line_ = line
                     /\ call.ret = History_get_line(history_.entries_, line)

\* previous() was called once more than there are entries
PreviousPastOldest ==
    /\ call.op = "previous"
    /\ nav.ok /\ nav.nn = 0 /\ nav.start = nav.size
    /\ nav.size = 3
    /\ nav.np = 4
    /\ history_.entries_[1] # history_.entries_[3]

\* C9, as claimed: over [L0, L1, L2] with the cursor at 3, after four
\* previous() calls the following next() calls return L1, L2 and "".
NextAfterPreviousAsClaimed ==
    (/\ call.op = "next"
     /\ nav.ok /\ nav.start = 3 /\ nav.size = 3 /\ nav.np = 4
     /\ nav.nn \in 1..3) =>
        call.ret = IF nav.nn = 3
                   THEN <<>>
                   ELSE History_get_line(history_.entries_, nav.nn)

\* C10: with a non-empty history and the cursor at size(), next() returns
\* "" and leaves the cursor at size().
NextAtEndIsEmpty ==
    (/\ call.op = "next"
     /\ ~History_empty(history_.entries_)
     /\ call.at = History_size(history_.entries_)) =>
        /\ call.ret = <<>>
        /\ history_.current_line_ = History_size(history_.entries_)

\* next() was called twice in a row at the end of a history whose last entry
\* is not empty
NextTwiceAtEnd ==
    /\ call.op = "next"
    /\ nav.ok /\ nav.start = nav.size /\ nav.np = 0 /\ nav.nn = 2
    /\ nav.size = 2
    /\ history_.entries_[2] # <<>>

\* C11, as claimed: after add_line(text), from any cursor and any fill, the
\* navigation cursor equals size().
AddLineMovesToEndAsClaimed ==
    call.op = "add_line" =>
        history_.current_line_ = HistoryView_size(history_)

\* C12: after any interleaving of add_line, previous, next and
\* reset_position, 0 <= cursor <= size(), and the entry previous() or next()
\* would read next is a stored one.
HistoryCursorInRange ==
    /\ 0 <= history_.current_line_
    /\ history_.current_line_ <= HistoryView_size(history_)
    /\ ~History_empty(history_.entries_) =>
           (IF history_.current_line_ # 0 THEN history_.current_line_ - 1 ELSE 0)
               \in 0 .. (HistoryView_size(history_) - 1)

\* add_line evicted the oldest entry while the cursor was inside the history
EvictedWithCursorInside ==
    /\ call.op = "add_line"
    /\ Len(added) > max_entries_
    /\ call.at < max_entries_
    /\ history_.current_line_ < HistoryView_size(history_)


----------------------------------------------------------------------------
(* Properties of the dispatcher's fallback and of prefix registrations,    *)
(* under SpecCR                                                            *)

\* the turn now taken reads a char that the loop dispatches: the stream has
\* not ended and the char is not the one the loop takes for end of input
DispatchesChar ==
    /\ pc = "reading"
    /\ ~input'.eof
    /\ call'.arg[1] # EOF

\* C13: with a default set, a char read at the root that starts no
\* registered sequence runs the default once, with current_char() that char,
\* and nothing else: no registered command, no exception, the byte is not
\* pushed back, and the dispatcher stays at the root.
DefaultFallbackAtRoot ==
    [][(/\ DispatchesChar
        /\ sequence = Root
        /\ command_reader_.default_ # NoCommand
        /\ command_reader_.commands_[Root] = NoCommand
        /\ ~CommandSequences_contains(command_reader_.commands_, Root,
                                      call'.arg[1])) =>
        /\ call'.op = command_reader_.default_
        /\ consumed' = consumed \/ Last(consumed') = call'.arg[1]
        /\ command_reader_'.curchar_ = call'.arg[1]
        /\ fired' = Append(fired, [command |-> command_reader_.default_,
                                   ch |-> call'.arg[1]])
        /\ status'.kind # "threw"
        /\ pc' = "reading"
        /\ ~input'.unget
        /\ sequence' = Root]_vars

\* 'x' was read at the root of a reader with 'a' registered and a default
DefaultFiredAtRoot ==
    /\ Registered(command_reader_.commands_, "a")
    /\ command_reader_.default_ = "default"
    /\ consumed = <<120>>
    /\ fired = << [command |-> "default", ch |-> 120] >>
    /\ sequence = Root
    /\ pc = "reading"

\* C14: with no default set, a char that does not extend the current path,
\* read at a node without a command, makes read_and_execute throw
\* "Unknown command: " followed by the value of that char, and no command
\* runs for it.
UnknownCommandThrows ==
    [][(/\ DispatchesChar
        /\ command_reader_.default_ = NoCommand
        /\ command_reader_.commands_[sequence] = NoCommand
        /\ ~CommandSequences_contains(command_reader_.commands_, sequence,
                                      call'.arg[1])) =>
        /\ call'.op = "throw"
        /\ pc' = "idle"
        /\ status'.kind = "threw"
        /\ status'.error = [what |-> "Unknown command: ", value |-> call'.arg[1]]
        /\ consumed' = consumed \/ Last(consumed') = call'.arg[1]
        /\ fired' = fired]_vars

\* 'a' 'b' 'x' went to a reader with 'a' and "abc" only and no default: the
\* 'x' met the node of "ab", which has no command
ThrewInsideSequence ==
    /\ OnlyRegistered({"a", "abc"})
    /\ command_reader_.default_ = NoCommand
    /\ consumed = <<97, 98, 120>>
    /\ status.kind = "threw"
    /\ status.error.value = 120
    /\ fired = <<>>

\* the registrations made so far, as <<sequence, command>> pairs
Registrations ==
    {reg \in TestCommands : Registered(command_reader_.commands_, reg[2])}

\* what the inputs q, and p followed by a char that does not extend p, have
\* fired, for registered sequences p, q with p a proper prefix of q
PrefixPairDispatch ==
    \A p \in Registrations : \A q \in Registrations :
        (p # q /\ IsPrefix(p[1], q[1])) =>
            /\ command_reader_.commands_[p[1]] = p[2]
            /\ command_reader_.commands_[q[1]] = q[2]
            /\ (consumed = q[1]
                    /\ CommandSequences_empty(command_reader_.commands_, q[1])) =>
                   /\ fired # <<>>
                   /\ fired[1] = [command |-> q[2], ch |-> Last(q[1])]
                   /\ \A i \in 2 .. Len(fired) : fired[i].command = "default"
            /\ \A b \in CRBytes :
                   (/\ consumed = Append(p[1], b)
                    /\ to_char(b) # EOF
                    /\ ~CommandSequences_contains(command_reader_.commands_,
                                                  p[1], b)) =>
                       /\ fired # <<>>
                       /\ fired[1] = [command |-> p[2], ch |-> b]
                       /\ \A i \in 1 .. Len(fired) : fired[i].command # q[2]

\* C15: when a registered sequence p is a proper prefix of a registered
\* sequence q, whichever was registered first: add_command puts its command
\* at its own sequence and leaves every command already in the table where
\* it was; the input q, when nothing registered extends q, fires q's command
\* and no other registered one; the input p followed by a char that does not
\* extend p fires p's command.
PrefixRegistrationsCoexist ==
    [][/\ call'.op = "add_command" =>
              /\ DOMAIN command_reader_.commands_ \subseteq
                     DOMAIN command_reader_'.commands_
              /\ command_reader_'.commands_[call'.arg] # NoCommand
              /\ <<call'.arg, command_reader_'.commands_[call'.arg]>>
                     \in TestCommands
              /\ \A n \in DOMAIN command_reader_.commands_ :
                     n # call'.arg =>
                         command_reader_'.commands_[n] =
                             command_reader_.commands_[n]
       /\ PrefixPairDispatch']_vars

\* with 'a' and "ab" registered, 'a' fired on the 'x' that followed it, and
\* the 'x', read again, went to the default
PrefixFiredOnLookahead ==
    /\ OnlyRegistered({"a", "ab"})
    /\ consumed = <<97, 120>>
    /\ fired = << [command |-> "a", ch |-> 120],
                  [command |-> "default", ch |-> 120] >>

----------------------------------------------------------------------------
(* Properties of Ctrl-D and of the end of read(), under Spec *)

\* the turn now taken reads Ctrl-D at the trie root
CtrlDAtRoot ==
    /\ pc = "reading"
    /\ sequence = Root
    /\ call'.op # "read"
    /\ call'.arg = <<CTRL_D>>

\* C16: Ctrl-D dispatched while the buffer is empty: read() returns the
\* empty string, and the history holds the entries it held, nothing appended.
CancelReturnsEmpty ==
    [][(CtrlDAtRoot /\ Buffer_empty(buffer_)) =>
        /\ call'.op = "do_control_d"
        /\ pc' = "idle"
        /\ status'.kind = "returned"
        /\ status'.value = <<>>
        /\ history_'.entries_ = history_.entries_
        /\ added' = added]_vars

\* a read() was cancelled by Ctrl-D after an earlier read() had stored "A"
CancelledAfterAccept ==
    /\ call.op = "do_control_d"
    /\ pc = "idle"
    /\ status.kind = "returned"
    /\ status.value = <<>>
    /\ history_.entries_ = << <<65>> >>

\* C17, as claimed: Ctrl-D dispatched while the buffer is not empty does not
\* stop the session, and is handled as the default action handles a byte:
\* do_write_char inserts it at the cursor.
CtrlDGoesToDefaultAsClaimed ==
    [][(CtrlDAtRoot /\ ~Buffer_empty(buffer_)) =>
        /\ pc' = "reading"
        /\ call'.op = command_reader_.default_
        /\ buffer_' = Buffer_insert(buffer_, CTRL_D)]_vars

\* C17, amended: Ctrl-D dispatched while the buffer is not empty does not
\* stop the session and changes nothing: its own command do_control_d runs,
\* not the default, and buffer content, cursor and history stay as they were.
CtrlDOnNonEmptyIgnored ==
    [][(CtrlDAtRoot /\ ~Buffer_empty(buffer_)) =>
        /\ pc' = "reading"
        /\ ~command_reader_'.should_stop_
        /\ call'.op = "do_control_d"
        /\ buffer_' = buffer_
        /\ history_' = history_
        /\ added' = added]_vars

\* Ctrl-D was dispatched on the buffer "A" with the cursor moved back to 0
CtrlDOnNonEmptyBuffer ==
    /\ call.op = "do_control_d"
    /\ pc = "reading"
    /\ buffer_ = [data_ |-> <<65>>, cursor_pos_ |-> 0]

\* C18, as claimed: a turn of read() whose get() meets the end of the stream
\* makes read() return, and read() returns only from an accept, from a cancel
\* or from a get() that met the end of the stream.
ReadTerminatesAsClaimed ==
    [][(pc = "reading" /\ call'.op # "read") =>
        /\ input'.eof => pc' = "idle"
        /\ pc' = "idle" =>
               \/ call'.op = "do_accept_command"
               \/ call'.op = "do_control_d" /\ Buffer_empty(buffer_)
               \/ call'.op = "EOF" /\ input'.eof]_vars

----------------------------------------------------------------------------
(* Properties of the terminal mode, under SpecTerm *)

\* raw mode: no echo, no line buffering
RawMode(attr) == "ECHO" \notin attr.lflag /\ "ICANON" \notin attr.lflag

\* C19, as claimed: while read() reads its input the terminal is in raw
\* mode, and once read() has returned or thrown the terminal is in the mode
\* it had before raw mode was applied.
ScopedTerminalModeAsClaimed ==
    /\ pc = "reading" => RawMode(stdin_attr)
    /\ (pc = "idle" /\ status.kind \in {"returned", "threw"}
            /\ call.op # "set_terminal_settings") =>
           stdin_attr = TerminalSettings_reset(terminal_.settings_)

----------------------------------------------------------------------------
(* Properties of the end of the stream, under SpecCR *)

\* C20, as claimed: a turn of read_and_execute whose get() returned a byte,
\* whatever its value, does not end the loop the way the end of the stream
\* does, and a turn whose get() met the end of the stream always does.
EndOfStreamDistinctAsClaimed ==
    [][pc = "reading" =>
        /\ ~input'.eof => /\ call'.op # "EOF"
                          /\ ~(command_reader_'.should_stop_
                                   /\ ~command_reader_.should_stop_)
        /\ input'.eof => /\ call'.op = "EOF"
                         /\ command_reader_'.should_stop_
                         /\ pc' = "idle"]_vars

----------------------------------------------------------------------------
(* Properties of successive read() calls, under SpecLines and Spec *)

\* `bytes` cut at each newline: the lines that are complete, and what
\* follows the last newline
RECURSIVE SplitLines(_, _, _)
SplitLines(bytes, lines, line) ==
    IF bytes = <<>>
    THEN [lines |-> lines, rest |-> line]
    ELSE IF Head(bytes) = NEWLINE
    THEN SplitLines(Tail(bytes), Append(lines, line), <<>>)
    ELSE SplitLines(Tail(bytes), lines, Append(line, Head(bytes)))

\* with only printable bytes and newlines read and the stream not ended:
\* the lines accepted so far are the complete lines of the stream, in order,
\* the line returned last is the last of them, and the buffer holds what has
\* been read of the next line
LinesReadInOrder ==
    ((\A i \in 1 .. Len(consumed) : consumed[i] \in {65, 66, NEWLINE})
            /\ ~input.eof) =>
        LET cut == SplitLines(consumed, <<>>, <<>>)
        IN  /\ added = cut.lines
            /\ pc = "reading" => buffer_.data_ = cut.rest
            /\ (pc = "idle" /\ consumed # <<>>) =>
                   /\ status.kind = "returned"
                   /\ status.value = Last(cut.lines)
                   /\ cut.rest = <<>>

\* C21: the turn that ends a session (an accept, or Ctrl-D on an empty
\* buffer) reads its own byte and nothing after it and pushes nothing back;
\* the next read() starts with an empty buffer, cursor 0, the dispatcher at
\* the root and the stop flag cleared, and reads on from there, so that k
\* lines of printable characters come back from k read() calls, in order.
SessionsResetBetweenReads ==
    [][/\ (pc = "reading" /\ pc' = "idle" /\ ~input'.eof /\ call'.arg[1] # EOF) =>
              /\ call'.op \in {"do_accept_command", "do_control_d"}
              /\ consumed' = Append(consumed, call'.arg[1])
              /\ input'.count = input.count + 1
              /\ ~input'.unget
       /\ (call'.op = "read" /\ pc' = "reading") =>
              /\ buffer_' = Buffer_new
              /\ sequence' = Root
              /\ ~command_reader_'.should_stop_
              /\ consumed' = consumed
              /\ input' = input
       /\ LinesReadInOrder']_vars

\* "A" and "B", each ended by a newline, came back from two read() calls
TwoLinesFromTwoReads ==
    /\ consumed = <<65, NEWLINE, 66, NEWLINE>>
    /\ added = << <<65>>, <<66>> >>
    /\ pc = "idle"
    /\ status.value = <<66>>

\* C22: once accept has committed a line the history cursor equals size(),
\* wherever navigation had left it, and previous() from there gives the line
\* committed; nothing but recall and accept moves the cursor, so the first
\* recall-previous of the following session loads that line.
CommitResetsHistoryCursor ==
    [][/\ (call'.op = "do_accept_command" /\ pc' = "idle") =>
              /\ history_'.current_line_ = HistoryView_size(history_')
              /\ HistoryView_previous(history_').ret = status'.value
              /\ status'.value = Last(added')
       /\ (call'.op \notin {"do_accept_command", "do_history_up",
                            "do_history_down"}) =>
              history_' = history_
       /\ (/\ call'.op = "do_history_up"
           /\ history_.current_line_ = HistoryView_size(history_)
           /\ ~History_empty(history_.entries_)) =>
              buffer_'.data_ = Last(history_.entries_)]_vars

\* "A" was committed, and the first recall of the next session shows it
RecalledCommittedLine ==
    /\ call.op = "do_history_up"
    /\ added = << <<65>> >>
    /\ buffer_.data_ = <<65>>
    /\ history_.current_line_ = 0

----------------------------------------------------------------------------
(* Properties of the dispatcher's lookahead, under SpecCR *)

\* what the dispatch of char b from the root has to do in the turn now
\* taken: go down, fire a leaf, or run the default
DispatchedFromRoot(b) ==
    LET trie == command_reader_.commands_
        node == <<b>>
    IN  IF node \in DOMAIN trie
        THEN IF \E c \in CRBytes : Append(node, c) \in DOMAIN trie
             THEN sequence' = node /\ fired' = fired
             ELSE /\ sequence' = Root
                  /\ fired' = Append(fired, [command |-> trie[node], ch |-> b])
        ELSE IF command_reader_.default_ # NoCommand
        THEN /\ sequence' = Root
             /\ fired' = Append(fired, [command |-> command_reader_.default_,
                                        ch |-> b])
        ELSE status'.kind = "threw" /\ fired' = fired

\* C27: at a node that has a command, a char b that is not among its
\* children makes that command fire once, b is put back and the path is the
\* root again; the turn after it reads b again, from the stream's one-byte
\* push-back and not as a new byte, and dispatches it from the root, after
\* which nothing is pushed back any more.
ShorterMatchPushesBack ==
    [][DispatchesChar =>
        LET trie == command_reader_.commands_
            b == call'.arg[1]
        IN  /\ (/\ trie[sequence] # NoCommand
                /\ ~CommandSequences_contains(trie, sequence, b)) =>
                   /\ fired' = Append(fired, [command |-> trie[sequence],
                                              ch |-> b])
                   /\ input'.unget
                   /\ to_char(input'.last) = b
                   /\ sequence' = Root
                   /\ pc' = "reading"
            /\ input.unget =>
                   /\ sequence = Root
                   /\ b = to_char(input.last)
                   /\ consumed' = consumed
                   /\ input'.count = input.count + 1
                   /\ ~input'.unget
                   /\ DispatchedFromRoot(b)]_vars

\* with 'a' and "ab" registered, the second 'a' of 'a' 'a' fired the first,
\* was pushed back, and read again it started a new sequence
PushedBackByteStartsSequence ==
    /\ OnlyRegistered({"a", "ab"})
    /\ consumed = <<97, 97>>
    /\ input.count = 3
    /\ fired = << [command |-> "a", ch |-> 97] >>
    /\ sequence = <<97>>

\* C28, as claimed: at a node without a command, a char that does not
\* extend the path fires nothing for the bytes before it, and is itself
\* given back to the stream, to be dispatched from the root.
AbandonedMatchRedispatchesAsClaimed ==
    [][(/\ DispatchesChar
        /\ sequence # Root
        /\ command_reader_.commands_[sequence] = NoCommand
        /\ command_reader_.default_ # NoCommand
        /\ ~CommandSequences_contains(command_reader_.commands_, sequence,
                                      call'.arg[1])) =>
        /\ fired' = fired
        /\ input'.unget
        /\ to_char(input'.last) = call'.arg[1]
        /\ sequence' = Root]_vars

\* C29: going down into a node that has a command and no children fires
\* that command in the same turn, on the byte that led there, with nothing
\* more read and nothing pushed back, and the path is the root again; going
\* down into a node with children fires nothing, and the command of such a
\* node fires only in a later turn that starts at that node and reads
\* another char.
LeafFiresWithoutLookahead ==
    [][DispatchesChar =>
        LET trie == command_reader_.commands_
            b == call'.arg[1]
            node == Append(sequence, b)
            HasChildren(n) == \E c \in CRBytes : Append(n, c) \in DOMAIN trie
        IN  /\ node \in DOMAIN trie =>
                   IF trie[node] # NoCommand /\ ~HasChildren(node)
                   THEN /\ fired' = Append(fired, [command |-> trie[node],
                                                   ch |-> b])
                        /\ sequence' = Root
                        /\ input'.count = input.count + 1
                        /\ ~input'.unget
                   ELSE /\ fired' = fired
                        /\ sequence' = node
                        /\ HasChildren(node) \/ trie[node] = NoCommand
            /\ \A n \in DOMAIN trie :
                   (/\ HasChildren(n)
                    /\ trie[n] # NoCommand
                    /\ fired' # fired
                    /\ Last(fired').command = trie[n]) =>
                       /\ sequence = n
                       /\ node \notin DOMAIN trie
                       /\ input'.count = input.count + 1]_vars

\* with 'a' alone registered, 'a' fired on its own byte, after one get()
LeafFiredOnItsOwnByte ==
    /\ OnlyRegistered({"a"})
    /\ consumed = <<97>>
    /\ input.count = 1
    /\ ~input.unget
    /\ fired = << [command |-> "a", ch |-> 97] >>
    /\ sequence = Root

----------------------------------------------------------------------------
(* Properties of the hooks and of the display, under SpecDisplay *)

\* C23: with no completion function set, a Tab read at the root runs
\* do_autocomplete, which leaves the buffer's content and cursor and the
\* history as they were, sends nothing to the display, whose line and cursor
\* stay as they were, and does not end the session; no Tab is in the buffer.
CompletionUnsetIsNoOp ==
    [][(/\ pc = "reading"
        /\ completion_ = NoCompletion
        /\ sequence = Root
        /\ call'.op # "read"
        /\ call'.arg = <<TAB>>) =>
        /\ call'.op = "do_autocomplete"
        /\ buffer_' = buffer_
        /\ \A i \in 1 .. Len(buffer_'.data_) :
               buffer_'.data_[i] = TAB => buffer_.data_[i] = TAB
        /\ history_' = history_
        /\ added' = added
        /\ display'.log = <<>>
        /\ display'.row = display.row
        /\ display'.col = display.col
        /\ sequence' = Root
        /\ pc' = "reading"]_vars

\* Tab was pressed after "A" in a Readline without completion function
TabPressedWithoutCompletion ==
    /\ completion_ = NoCompletion
    /\ call.op = "do_autocomplete"
    /\ call.arg = <<TAB>>
    /\ buffer_.data_ = <<65>>
    /\ pc = "reading"

\* C24: read() calls the prompt function once, before any byte is read: it
\* sends the cursor to column 0 and writes the prompt returned; no turn of
\* the read loop, whatever command it runs, calls the function again.
PromptCalledOncePerRead ==
    [][/\ (call'.op = "read" /\ prompter_.set) =>
              /\ prompter_'.calls = 1
              /\ prompter_'.prompt_ = prompter_.text
              /\ input' = input
              /\ display'.log = << <<"abs", 0>>, <<"text", Len(prompter_.text)>> >>
              /\ pc' = "reading"
       /\ call'.op # "read" =>
              /\ prompter_' = prompter_
              /\ pc = "reading"
              /\ prompter_.set => prompter_.calls = 1]_vars

\* the second read() has shown its prompt once and a line was recalled
PromptShownOnceInSecondRead ==
    /\ prompter_.set
    /\ prompter_.calls = 1
    /\ added = << <<65>> >>
    /\ call.op = "do_history_up"
    /\ pc = "reading"

\* the commands that edit the line
EditingCommands ==
    {"do_write_char", "do_backspace", "do_clear_line", "do_move_left",
     "do_move_right", "do_history_up", "do_history_down", "do_autocomplete"}

\* C26, as claimed: after every command that edits the line, the cells of
\* the display line after the prompt hold the buffer's content, and the
\* terminal's cursor is at the column after the prompt plus the buffer's
\* cursor.
DisplayInSyncAsClaimed ==
    [][(pc = "reading" /\ call'.op \in EditingCommands) =>
        LET P == Prompt_size(prompter_')
        IN  /\ SubSeq(display'.row, P + 1, Len(display'.row)) = buffer_'.data_
            /\ display'.col = P + 1 + Buffer_position(buffer_')]_vars

\* the turn now taken runs a command that changes the buffer left of its
\* end: an insert before the end, a backspace, or a completion
RedrawingTurn ==
    /\ pc = "reading"
    /\ \/ call'.op = "do_write_char"
             /\ Buffer_position(buffer_) < Buffer_size(buffer_)
       \/ call'.op = "do_backspace" /\ Buffer_position(buffer_) # 0
       \/ call'.op = "do_autocomplete" /\ completion_ # NoCompletion

\* the command of the turn now taken ends by sending the cursor to the
\* column of the prompt's length plus the buffer's cursor, has written as
\* many chars as the buffer holds, which now follow the prompt on the
\* display, and has sent no relative move
RedrawnAbsolutely ==
    LET P == Prompt_size(prompter_')
        log == display'.log
    IN  /\ log # <<>>
        /\ log[Len(log)] = <<"abs", P + 1 + Buffer_position(buffer_')>>
        /\ log[Len(log) - 1] = <<"text", Buffer_size(buffer_')>>
        /\ SubSeq(display'.row, P + 1, P + Buffer_size(buffer_')) = buffer_'.data_
        /\ \A i \in 1 .. Len(log) : log[i][1] \notin {"back", "fwd"}

\* C30, as claimed: every such command sends a clear of the line, then the
\* buffer's full content, then an absolute move to the cursor's column, and
\* no relative move.
RedrawStepsAsClaimed ==
    [][RedrawingTurn =>
        /\ RedrawnAbsolutely
        /\ \E i \in 1 .. Len(display'.log) - 2 :
               display'.log[i][1] = "clear"]_vars

\* C30, amended: backspace and completion send an absolute move to the
\* column after the prompt, a clear of the line, the buffer's full content
\* and an absolute move to the cursor's column; an insert, before the end
\* or at it, sends the same without the clear; none sends a relative move.
RedrawSteps ==
    [][(pc = "reading" /\ (RedrawingTurn \/ call'.op = "do_write_char")) =>
        LET P == Prompt_size(prompter_')
            text == <<"text", Buffer_size(buffer_')>>
            back == <<"abs", P + 1 + Buffer_position(buffer_')>>
        IN  /\ RedrawnAbsolutely
            /\ display'.log =
                   IF call'.op = "do_write_char"
                   THEN << <<"abs", P + 1>>, text, back >>
                   ELSE << <<"abs", P + 1>>, <<"clear", 0>>, text, back >>]_vars

\* "AB" came from the completion, and 'A' was inserted before its 'B'
InsertedInsideCompletedText ==
    /\ call.op = "do_write_char"
    /\ buffer_.data_ = <<65, 65, 66>>
    /\ Buffer_position(buffer_) = 2
    /\ Len(display.log) = 3

----------------------------------------------------------------------------
(* Properties of failing writes, under SpecOutput *)

\* C25, as claimed: the read() during which a write to the display fails or
\* comes back short, be it of an escape sequence or of text, ends with an
\* exception that reaches its caller.
OutputFailuresFatalAsClaimed ==
    [][(display.fail_in = 1 /\ display'.fail_in = 0) =>
        /\ status'.kind = "threw"
        /\ pc' = "idle"]_vars

----------------------------------------------------------------------------
(* Round trips and frames of Buffer and TerminalSettings *)

\* C39: insert(ch) followed at once by remove() gives back the content and
\* the cursor there were before: for the insert just made, and for every
\* character that could be inserted next into the Buffer reached.
InsertRemoveRoundTrip ==
    [][/\ call'.op = "insert" => Buffer_remove(buffer_') = buffer_
       /\ \A c \in BufChars :
              Buffer_remove(Buffer_insert(buffer_', c)) = buffer_']_vars

\* a character went in between two others, and remove() would take out
\* that character
InsertedInsideRemovable ==
    /\ call.op = "insert"
    /\ call.at = 1
    /\ Buffer_size(buffer_) = 3
    /\ Buffer_position(buffer_) = 2
    /\ Buffer_remove(buffer_).data_ = <<buffer_.data_[1], buffer_.data_[3]>>
    /\ Buffer_remove(buffer_).cursor_pos_ = 1

\* the flag of each setter, the word it is in, and whether the feature the
\* setter names is on with the flag set (echo, canonical mode, output
\* processing) or with the flag clear (Ctrl-C and Ctrl-Z as characters)
SetterFlag ==
    [set_echo |-> [word |-> "lflag", flag |-> "ECHO", on |-> TRUE],
     set_canonical |-> [word |-> "lflag", flag |-> "ICANON", on |-> TRUE],
     set_ctrlc_ctrlz_as_characters |->
         [word |-> "lflag", flag |-> "ISIG", on |-> FALSE],
     set_output_processing |-> [word |-> "oflag", flag |-> "OPOST", on |-> TRUE]]

\* C40, as claimed, in its weakest reading: a setter leaves every flag but
\* its own as it was, in both words; called with true it leaves its feature
\* on if it was on, called with false it leaves it off if it was off;
\* original_ and the c_cc entries stay as they were.
SettersTouchOwnFlagAsClaimed ==
    [][call'.op \in DOMAIN SetterFlag =>
        LET f == SetterFlag[call'.op]
            to == call'.arg[1]
            old == terminal_.settings_.current_
            new == terminal_'.settings_.current_
        IN  /\ new.lflag \ {f.flag} = old.lflag \ {f.flag}
            /\ new.oflag \ {f.flag} = old.oflag \ {f.flag}
            /\ LET FeatureOn(attr) == (f.flag \in attr[f.word]) <=> f.on
               IN  IF to THEN FeatureOn(old) => FeatureOn(new)
                         ELSE ~FeatureOn(old) => ~FeatureOn(new)
            /\ new.vmin = old.vmin /\ new.vtime = old.vtime
            /\ terminal_'.settings_.original_ = terminal_.settings_.original_]_vars

----------------------------------------------------------------------------
(* Properties of the Readline's streams, under SpecInput *)

\* C31, as claimed: once set_input_stream(is) has been called, every turn
\* of a read() extracts from `is`: the stream the reader pulls from is the
\* one input_ refers to, and no byte of std::cin is read any more.
InputFollowsSetStreamAsClaimed ==
    [][(pc = "reading" /\ call'.op # "read" /\ input_ = "is") =>
        /\ command_reader_.input_ = input_
        /\ call'.arg[1] \in StreamBytes["is"] \cup {EOF}]_vars

----------------------------------------------------------------------------
(* Properties of what read() returns, under Spec *)

\* the bytes bound to a single-byte command by Readline's constructor
SingleByteCommands == {NEWLINE, TAB, CTRL_C, CTRL_D, CTRL_U, BACKSPACE}

\* C32, as claimed: the string read() returns holds no newline and no other
\* byte bound to a single-byte command, whatever the input stream was.
ReturnedLineHasNoCommandByteAsClaimed ==
    status.kind = "returned" =>
        \A i \in DOMAIN status.value : status.value[i] \notin SingleByteCommands

\* C33, as claimed: a non-empty string returned by read() was committed by an
\* accept and is the newest history entry; a session that ends without an
\* accept returns the empty string.
NonEmptyReturnWasCommittedAsClaimed ==
    [][(pc = "reading" /\ pc' = "idle" /\ status'.kind = "returned") =>
        /\ status'.value # <<>> =>
              /\ call'.op = "do_accept_command"
              /\ ~History_empty(history_'.entries_)
              /\ status'.value = Last(history_'.entries_)
        /\ call'.op # "do_accept_command" => status'.value = <<>>]_vars

\* C33: a read() returns after an accept, after a cancel or after the loop's
\* end-of-stream test.  After an accept it returns the line committed, which
\* is then the newest history entry; after a cancel it returns the empty
\* string; after the end-of-stream test it returns the buffer as it stands,
\* typed text included, and in the last two cases history is left alone.
ReturnIsBufferAtSessionEnd ==
    [][(pc = "reading" /\ pc' = "idle" /\ status'.kind = "returned") =>
        /\ call'.op \in {"do_accept_command", "do_control_d", "EOF"}
        /\ call'.op = "do_accept_command" =>
              /\ status'.value = buffer_.data_
              /\ status'.value = Last(history_'.entries_)
              /\ added' = Append(added, status'.value)
        /\ call'.op = "do_control_d" =>
              /\ status'.value = <<>>
              /\ history_' = history_ /\ added' = added
        /\ call'.op = "EOF" =>
              /\ status'.value = buffer_.data_
              /\ history_' = history_ /\ added' = added]_vars

\* the input ended after "A": read() returned "A", which no accept committed
UncommittedTextReturned ==
    /\ pc = "idle"
    /\ call.op = "EOF"
    /\ status.kind = "returned"
    /\ status.value = <<65>>
    /\ history_.entries_ = <<>>

----------------------------------------------------------------------------
(* Properties of the Readline's history across sessions, under Spec *)

\* C36, as claimed: in every state in which read() can be called the history
\* cursor is at size(), the fresh-line position, however the sessions before
\* ended.
HistoryCursorFreshAtReadAsClaimed ==
    pc = "idle" => history_.current_line_ = HistoryView_size(history_)

\* C37: every accept appends one entry, the line read() returns, also when
\* that line is empty or equal to the newest entry: below max_entries_ the
\* entries grow by that one, at max_entries_ the oldest entry goes and the
\* others keep their order.
AcceptAppendsOneEntry ==
    [][call'.op = "do_accept_command" =>
        LET old == history_.entries_
            line == status'.value
        IN  /\ status'.kind = "returned"
            /\ line = buffer_.data_
            /\ history_'.entries_ =
                   IF Len(old) < max_entries_
                   THEN Append(old, line)
                   ELSE Append(Tail(old), line)]_vars

\* the fourth accept: "A" was evicted, and the empty line was stored three
\* times over
AcceptedAtCapacity ==
    /\ call.op = "do_accept_command"
    /\ added = << <<65>>, <<>>, <<>>, <<>> >>
    /\ history_.entries_ = << <<>>, <<>>, <<>> >>

\* C38: no step but an accept changes the stored entries or their order;
\* no step but an accept or a recall changes the history cursor either, so
\* editing a recalled line changes the buffer only; and a recall with an
\* empty history leaves buffer and display as they were.
HistoryChangedOnlyByAccept ==
    [][/\ call'.op # "do_accept_command" =>
              /\ history_'.entries_ = history_.entries_
              /\ added' = added
       /\ call'.op \notin {"do_accept_command", "do_history_up",
                            "do_history_down"} =>
              history_' = history_
       /\ (/\ call'.op \in {"do_history_up", "do_history_down"}
           /\ History_empty(history_.entries_)) =>
              /\ buffer_' = buffer_
              /\ history_' = history_
              /\ display'.row = display.row /\ display'.col = display.col]_vars

\* recall-previous ran with "A" typed and nothing in history
RecalledFromEmptyHistory ==
    /\ call.op = "do_history_up"
    /\ history_.entries_ = <<>>
    /\ buffer_.data_ = <<65>>

----------------------------------------------------------------------------
(* Properties of the dispatcher at the end of the input and with a command *)
(* on the root                                                             *)

\* C34, as claimed, under SpecCR: when the input ends while the dispatcher
\* is on a node that has a command and children, that command fires once,
\* with nothing else, and read_and_execute returns.
PendingMatchFiresAtEndOfInputAsClaimed ==
    [][(/\ pc = "reading"
        /\ command_reader_.commands_[sequence] # NoCommand
        /\ ~CommandSequences_empty(command_reader_.commands_, sequence)
        /\ ~input.eof /\ input'.eof) =>
        /\ Len(fired') = Len(fired) + 1
        /\ Last(fired').command = command_reader_.commands_[sequence]
        /\ pc' = "idle"
        /\ status'.kind = "returned"]_vars

\* C35, as claimed, under SpecRoot: a byte that was pushed back is consumed
\* by the next get() and is not pushed back by the turn that consumes it.
PushedBackOnceAsClaimed ==
    [][(pc = "reading" /\ input.unget) => ~input'.unget]_vars
====
